---- MODULE Spec2Model ----
(***************************************************************************)
(* Device resolution and composition (boardfarm/devices/__init__.py) and   *)
(* the environment requirement matcher (boardfarm/lib/env_helper.py).      *)
(***************************************************************************)
EXTENDS Integers, Sequences, FiniteSets, TLC

VARIABLES
    device_mappings,  \* the registry: sequence of [module, devs] entries
    profile_obj,      \* the caller's profile map [present, map]
    mgr_devices,      \* calls received by device_mgr._add_device
    pc,               \* "idle", "init", "finish", "done"
    model,            \* requested model name
    device_mgr,       \* "None" or "mgr"
    arg_override,     \* the caller's override argument [given, v]
    arg_plugin,       \* the caller's plugin_device argument [given, v]
    arg_kwargs,       \* the caller's pass-through configuration
    arg_profile,      \* the profile map as it was when the call was made
    override,         \* local of get_device
    plugin,           \* local of get_device
    kwargs,           \* local of get_device: the merged configuration
    cls_list,         \* the final Descriptor sequence
    n_primary,        \* number of primary candidates in cls_list
    idx,              \* index of the next initializer to invoke
    inits,            \* initializer invocations made on the instance
    init_exc,         \* the exception an initializer raised, if one did
    result,           \* outcome of get_device
    env_test,         \* matcher: the required tree
    env_helper,       \* matcher: the available tree
    env_pc,           \* matcher: "idle", "done"
    env_result,       \* matcher: outcome of contained
    env_work,         \* matcher: the working copy of the outermost list match
    env_outcome,      \* matcher: what env_check returned or raised
    env_log,          \* matcher: what env_check wrote to the error log
    h_env,            \* helper: the document given to EnvHelper(...)
    h_mirror,         \* helper: the mirror given to EnvHelper(...)
    helper,           \* helper: the EnvHelper object
    h_pc,             \* helper: "idle", "new", "built", "failed"
    h_call,           \* helper: the last call made
    h_outcome,        \* helper: what the last call returned or raised
    env_json,         \* env_devices: the document passed
    dev_pc,           \* env_devices: "idle", "done"
    dev_result,       \* env_devices: the dict returned
    all_mods,         \* probe_devices: the modules the last call scanned
    prev_mappings,    \* probe_devices: the dict that was the registry before
                      \* the last call, which the call leaves as it was
    n_probes,         \* probe_devices: number of calls made
    threads,          \* concurrent matching: the locals of each call
    conc_helper       \* concurrent matching: the available tree as passed

compVars == <<device_mappings, profile_obj, mgr_devices, pc, model, device_mgr,
              arg_override, arg_plugin, arg_kwargs, arg_profile, override, plugin,
              kwargs,
              cls_list, n_primary, idx, inits, init_exc, result>>
envVars ==
    <<env_test, env_helper, env_pc, env_result, env_work, env_outcome,
      env_log>>
helperVars == <<h_env, h_mirror, helper, h_pc, h_call, h_outcome>>
devVars == <<env_json, dev_pc, dev_result>>
probeVars == <<all_mods, prev_mappings, n_probes>>
concVars == <<threads, conc_helper>>
vars == <<device_mappings, profile_obj, mgr_devices, pc, model, device_mgr,
          arg_override, arg_plugin, arg_kwargs, arg_profile, override, plugin,
          kwargs,
          cls_list, n_primary, idx, inits, init_exc, result,
          envVars, helperVars, devVars, probeVars, concVars>>
nonCompVars == <<envVars, helperVars, devVars, probeVars, concVars>>
nonEnvVars == <<compVars, helperVars, devVars, probeVars, concVars>>
nonHelperVars == <<compVars, envVars, devVars, probeVars, concVars>>
nonDevVars == <<compVars, envVars, helperVars, probeVars, concVars>>
nonConcVars ==
    <<compVars, env_test, env_pc, env_result, env_work, env_outcome, env_log,
      helperVars, devVars, probeVars, conc_helper>>
nonProbeVars ==
    <<profile_obj, mgr_devices, pc, model, device_mgr, arg_override,
      arg_plugin, arg_kwargs, arg_profile, override, plugin, kwargs, cls_list,
      n_primary, idx, inits, init_exc, result, envVars, helperVars, devVars,
      concVars>>

(***************************************************************************)
(* Bounds                                                                  *)
(***************************************************************************)
MaxReg == 3
MaxLen == 2

(***************************************************************************)
(* Helpers                                                                 *)
(***************************************************************************)
Range(s) == {s[i] : i \in DOMAIN s}

EmptyMap == <<>>

\* mutant: no key is added
UpdateAddsNothing(a, b) == a

\* dict.update(): keys of b overwrite those of a
Update(a, b) ==
    [k \in DOMAIN a \cup DOMAIN b |-> IF k \in DOMAIN b THEN b[k] ELSE a[k]]

\* mutant: no key is removed
WithoutNone(m, ks) == m

\* dict without the keys in ks (repeated pop)
Without(m, ks) == [k \in DOMAIN m \ ks |-> m[k]]

InjSeqs(S, n) ==
    UNION {{s \in [1..k -> S] : \A i, j \in 1..k : s[i] = s[j] => i = j} : k \in 0..n}

(***************************************************************************)
(* Descriptors: the device classes the plugins contribute                  *)
(***************************************************************************)
Descs == {"D1", "D2", "D3", "D4", "D5"}

\* cls.__dict__ of each class: the attribute names it declares itself
ClsDict(d) ==
    CASE d = "D1" -> {"__init__", "__module__", "model", "start", "stop"}
      [] d = "D2" -> {"__init__", "__module__", "model", "profile", "configure"}
      [] d = "D3" -> {"__init__", "__module__", "model", "prompt", "scan"}
      [] d = "D4" -> {"__module__", "model", "configure", "radio__"}
      [] d = "D5" -> {"__init__", "__module__", "reboot"}

\* the class attribute model: a str or a tuple of str
ModelAttr(d) ==
    CASE d = "D1" -> [type |-> "str", names |-> <<"modemA">>]
      [] d = "D2" -> [type |-> "str", names |-> <<"modemA">>]
      [] d = "D3" -> [type |-> "tuple", names |-> <<"wifi", "modemB">>]
      [] d = "D4" -> [type |-> "str", names |-> <<"wifi">>]
      [] d = "D5" -> [type |-> "str", names |-> <<"modemA">>]

\* str.startswith("__") and str.endswith("__") on the attribute names in use
StartsWithDunder(a) == a \in {"__init__", "__module__"}
EndsWithDunder(a) == a \in {"__init__", "__module__", "radio__"}

Models == {"modemA", "wifi", "modemB", "unknown-123"}
Managers == {"None", "mgr"}
FlagArgs == {[given |-> FALSE, v |-> FALSE], [given |-> TRUE, v |-> TRUE],
             [given |-> TRUE, v |-> FALSE]}
BaseKwargs == {EmptyMap, [mode |-> "router"]}
ProfileMaps ==
    { EmptyMap,
      [modemA |-> [mode |-> "bridge"]],
      [wifi |-> [mode |-> "bridge", override |-> "yes"]],
      [wifi |-> [mode |-> "bridge"], modemB |-> [speed |-> "fast"]],
      [modemB |-> [speed |-> "fast", mode |-> "ap"]],
      [modemA |-> [mode |-> "ap"],
       wifi |-> [mode |-> "bridge", speed |-> "fast"]] }
ProfileChoices ==
    {[present |-> FALSE, map |-> EmptyMap]}
        \cup {[present |-> TRUE, map |-> p] : p \in ProfileMaps}

RegistryChoices ==
    {<<[module |-> "boardfarm.devices", devs |-> s]>> : s \in InjSeqs(Descs, MaxReg)}

(***************************************************************************)
(* Exceptions                                                              *)
(***************************************************************************)
\* an exception object: its class, the fragments of its message, the
\* duplicate members and classes a composition failure reports, and the
\* exception it was raised from inside an except block (__context__)
Exc(type, msg, common, classes, context) ==
    [type |-> type, msg |-> msg, common |-> common, classes |-> classes,
     context |-> context]

\* classes derived from Exception (KeyboardInterrupt derives from
\* BaseException only)
IsException(type) ==
    type \in {"Exception", "BftNotSupportedDevice", "ConnectionRefused", "EOF",
              "ValueError", "TypeError"}

\* what a Descriptor's initializer may raise
InitErrors ==
    { Exc("BftNotSupportedDevice", <<"board not supported">>, {}, <<>>, "none"),
      Exc("ConnectionRefused", <<"ssh refused">>, {}, <<>>, "none"),
      Exc("EOF", <<"end of file">>, {}, <<>>, "none"),
      Exc("ValueError", <<"bad value">>, {}, <<>>, "none"),
      Exc("KeyboardInterrupt", <<>>, {}, <<>>, "none") }

(***************************************************************************)
(* bf_node: conflict check                                                 *)
(***************************************************************************)
\* the members of a class that take part in the conflict check
Members(cls) ==
    {attr \in ClsDict(cls) :
        /\ ~StartsWithDunder(attr)
        /\ ~EndsWithDunder(attr)
        /\ attr \notin {"model", "prompt", "profile"}}

\* cls_members after the first i classes of the list went through the loop
ClsMembers(list, i) == UNION {Members(list[j]) : j \in 1..i}

\* mutant: the overlap is taken with the preceding class only
CommonWithPrevious(list, i) ==
    Members(list[i]) \cap (IF i > 1 THEN Members(list[i - 1]) ELSE {})

\* common, computed when the loop reaches the i-th class
Common(list, i) == Members(list[i]) \cap ClsMembers(list, i - 1)

\* index of the class at which the loop raises, 0 when it runs through
FirstConflict(list) ==
    IF \E i \in 1..Len(list) : Common(list, i) # {}
    THEN CHOOSE i \in 1..Len(list) :
            /\ Common(list, i) # {}
            /\ \A j \in 1..(i - 1) : Common(list, j) = {}
    ELSE 0

\* cls_list.index(cls): the first position holding cls
IndexOf(list, cls) == CHOOSE i \in 1..Len(list) :
    list[i] = cls /\ \A j \in 1..(i - 1) : list[j] # cls

\* mutant: the error names every class of the list
DuplicateMembersAll(list, i) ==
    Exc("Exception", <<"Identified duplicate class members ", " between classes  ">>,
        Common(list, i), list, "none")

\* the exception bf_node raises at the i-th class
DuplicateMembers(list, i) ==
    Exc("Exception", <<"Identified duplicate class members ", " between classes  ">>,
        Common(list, i), SubSeq(list, 1, IndexOf(list, list[i])), "none")

(***************************************************************************)
(* get_device: resolution loop                                             *)
(***************************************************************************)
\* the registry in iteration order: for each module, for each dev
RECURSIVE Flatten(_)
Flatten(dm) ==
    IF dm = <<>> THEN <<>> ELSE Head(dm).devs \o Flatten(Tail(dm))

\* model == attr (str) or model in attr (tuple)
IsPrimary(attr, m) ==
    \/ attr.type = "str" /\ m = attr.names[1]
    \/ attr.type = "tuple" /\ m \in Range(attr.names)

\* mutant: a tuple is selected by any number of its names among the keys
ProfileKeysAny(attr, profile) == Range(attr.names) \cap DOMAIN profile

\* the profile keys that select the class: attr in profile (str), or the
\* single element of set(attr) & set(profile) (tuple)
ProfileKeys(attr, profile) ==
    IF Cardinality(DOMAIN profile) > 0
    THEN IF attr.type = "str"
         THEN {attr.names[1]} \cap DOMAIN profile
         ELSE IF Cardinality(Range(attr.names) \cap DOMAIN profile) = 1
              THEN Range(attr.names) \cap DOMAIN profile
              ELSE {}
    ELSE {}

\* mutant: a primary whose alias is a profile key is not appended again but
\* its override map is merged all the same (the continue is lost)
LoopBodyNoSkip(st, dev, m) ==
    IF "model" \notin ClsDict(dev) THEN st
    ELSE
      LET attr == ModelAttr(dev)
          cl == IF IsPrimary(attr, m) THEN Append(st.cls_list, dev) ELSE st.cls_list
          keys == ProfileKeys(attr, st.profile)
      IN IF keys = {} THEN [st EXCEPT !.cls_list = cl]
         ELSE
           LET key == CHOOSE k \in keys : TRUE
               profile_kwargs == st.profile[key]
               common_keys == DOMAIN st.kwargs \cap DOMAIN profile_kwargs
               reduced == Without(profile_kwargs, common_keys)
           IN [cls_list |-> cl,
               profile_list |-> IF dev \in Range(cl) THEN st.profile_list
                                ELSE Append(st.profile_list, dev),
               kwargs |-> Update(st.kwargs, reduced),
               profile |-> [st.profile EXCEPT ![key] = reduced],
               warnings |-> st.warnings + 1]

\* one iteration of the loop body on dev; st holds cls_list, profile_list,
\* kwargs and the profile map
LoopBody(st, dev, m) ==
    IF "model" \notin ClsDict(dev) THEN st
    ELSE
      LET attr == ModelAttr(dev)
          cl == IF IsPrimary(attr, m) THEN Append(st.cls_list, dev) ELSE st.cls_list
          keys == ProfileKeys(attr, st.profile)
      IN IF keys = {} THEN [st EXCEPT !.cls_list = cl]
         ELSE IF dev \in Range(cl)
              THEN [st EXCEPT !.cls_list = cl, !.warnings = @ + 1]
              ELSE
                LET key == CHOOSE k \in keys : TRUE
                    profile_kwargs == st.profile[key]
                    common_keys == DOMAIN st.kwargs \cap DOMAIN profile_kwargs
                    reduced == Without(profile_kwargs, common_keys)
                IN [cls_list |-> cl,
                    profile_list |-> Append(st.profile_list, dev),
                    kwargs |-> Update(st.kwargs, reduced),
                    profile |-> [st.profile EXCEPT ![key] = reduced],
                    warnings |-> st.warnings + (IF common_keys # {} THEN 2 ELSE 0)]

RECURSIVE Loop(_, _, _)
Loop(st, devs, m) ==
    IF devs = <<>> THEN st
    ELSE Loop(LoopBody(st, Head(devs), m), Tail(devs), m)

\* kwargs of get_device as the call binds them: the pass-through keys and,
\* when the caller gave one, the profile map under "profile" (by reference)
BoundKwargs(base, prof) ==
    IF prof.present THEN Update(base, [profile |-> "@profile"]) ELSE base

\* the state of the locals when the loop is over
Resolve(dm, m, base, prof) ==
    Loop([cls_list |-> <<>>, profile_list |-> <<>>,
          kwargs |-> BoundKwargs(base, prof),
          profile |-> IF prof.present THEN prof.map ELSE EmptyMap,
          warnings |-> 0],
         Flatten(dm), m)

\* mutant: the generic clause puts the model name in front of the message
HandleWithModel(e, m) ==
    IF e.type \in {"BftNotSupportedDevice", "ConnectionRefused"} THEN e
    ELSE IF e.type = "EOF"
         THEN Exc("Exception",
                  <<"Failed to connect to a ", m,
                    ", unable to connect (in use) or possibly misconfigured">>,
                  {}, <<>>, e.type)
    ELSE IF IsException(e.type)
         THEN Exc("Exception", <<m, ": ">> \o e.msg, e.common, e.classes, e.type)
    ELSE e

\* mutant: no clause of its own for ConnectionRefused, the generic one takes it
HandleRefusedWrapped(e, m) ==
    IF e.type = "BftNotSupportedDevice" THEN e
    ELSE IF e.type = "EOF"
         THEN Exc("Exception",
                  <<"Failed to connect to a ", m,
                    ", unable to connect (in use) or possibly misconfigured">>,
                  {}, <<>>, e.type)
    ELSE IF IsException(e.type)
         THEN Exc("Exception", e.msg, e.common, e.classes, e.type)
    ELSE e

\* the except clauses of get_device applied to an exception raised in the try
Handle(e, m) ==
    IF e.type = "BftNotSupportedDevice" THEN e
    ELSE IF e.type = "ConnectionRefused" THEN e
    ELSE IF e.type = "EOF"
         THEN Exc("Exception",
                  <<"Failed to connect to a ", m,
                    ", unable to connect (in use) or possibly misconfigured">>,
                  {}, <<>>, e.type)
    ELSE IF IsException(e.type)
         THEN Exc("Exception", e.msg, e.common, e.classes, e.type)
    ELSE e

NotSupported(m) ==
    Exc("BftNotSupportedDevice", <<"Unable to spawn instance of model: ", m>>,
        {}, <<>>, "none")

NoResult == [kind |-> "none"]
Returned(dev) == [kind |-> "return", dev |-> dev]
Raised(e) == [kind |-> "raise", exc |-> e]

(***************************************************************************)
(* Environment trees                                                       *)
(***************************************************************************)
\* JSON values as Python holds them: None, str, list, dict
Null == [t |-> "null"]
Str(v) == [t |-> "str", v |-> v]
List(e) == [t |-> "list", e |-> e]

\* a dict: its entries m and its keys in insertion order o, the order in
\* which iteration yields them
Dict(o, m) == [t |-> "map", m |-> m, o |-> o]

\* the order in which a dict literal written with Map names its keys
KeyOrder ==
    <<"a", "b", "device_type", "lan", "wan", "version", "environment_def",
      "board", "software", "image_uri", "load_image", "upgrade_images",
      "downgrade_images", "dependent_software", "flash_strategy">>

\* the keys of m in the order of order
RECURSIVE KeysFrom(_, _)
KeysFrom(m, order) ==
    IF order = <<>> THEN <<>>
    ELSE IF Head(order) \in DOMAIN m
         THEN <<Head(order)>> \o KeysFrom(m, Tail(order))
         ELSE KeysFrom(m, Tail(order))

\* a dict literal: the keys are inserted in the order of KeyOrder
Map(m) == Dict(KeysFrom(m, KeyOrder), m)

\* the orders in which the keys of a dict may have been inserted
Orders(S) ==
    {o \in [1..Cardinality(S) -> S] :
        \A i, j \in 1..Cardinality(S) : o[i] = o[j] => i = j}

\* the dicts with the entries of x, in every insertion order
Reordered(x) == {Dict(o, x.m) : o \in Orders(DOMAIN x.m)}

\* x == y: dicts are equal when their entries are, whatever the order of
\* insertion; lists are equal element by element
RECURSIVE PyEq(_, _)
PyEq(x, y) ==
    IF x.t # y.t THEN FALSE
    ELSE IF x.t = "map"
    THEN /\ DOMAIN x.m = DOMAIN y.m
         /\ \A k \in DOMAIN x.m : PyEq(x.m[k], y.m[k])
    ELSE IF x.t = "list"
    THEN /\ Len(x.e) = Len(y.e)
         /\ \A i \in 1..Len(x.e) : PyEq(x.e[i], y.e[i])
    ELSE x = y

\* k in s for two str: k occurs in s (for the strings in use)
IsSubstring(k, s) == k = s \/ <<k, s>> \in {<<"a", "lan">>, <<"b", "b1">>}

(***************************************************************************)
(* EnvHelper.env_check.contained                                           *)
(***************************************************************************)
\* outcomes: "True", "False", or the name of the exception that ends the call
Bool(b) == IF b THEN "True" ELSE "False"

\* k not in env_helper, for a key k of env_test: "in", "not in" or TypeError
KeyIn(k, h) ==
    CASE h.t = "map" -> IF k \in DOMAIN h.m THEN "in" ELSE "not in"
      [] h.t = "list" -> IF \E i \in 1..Len(h.e) : PyEq(h.e[i], Str(k))
                         THEN "in" ELSE "not in"
      [] h.t = "str" -> IF IsSubstring(k, h.v) THEN "in" ELSE "not in"
      [] h.t = "null" -> "TypeError"

RECURSIVE contained(_, _)
\* mutant: the values of the required map are matched by containment
ItemsContained(test, env) ==
    \A k \in DOMAIN test.m :
        k \in DOMAIN env.m /\ contained(test.m[k], env.m[k]) = "True"

\* test.items() <= env.items() for two dicts
ItemsLE(test, env) ==
    \A k \in DOMAIN test.m : k \in DOMAIN env.m /\ PyEq(test.m[k], env.m[k])

\* the inner for loop from the j-th entry of the working copy on: the index
\* of the entry that is removed, 0 when the loop runs out, -1 when an entry
\* that is no dict is reached first (AttributeError on env.items())
\* mutant: the last entry that satisfies the required map is taken
FirstFitLast(test, list, j) ==
    IF \E k \in j..Len(list) : list[k].t # "map" THEN -1
    ELSE IF \E k \in j..Len(list) : ItemsLE(test, list[k])
         THEN CHOOSE k \in j..Len(list) :
                  /\ ItemsLE(test, list[k])
                  /\ \A l \in j..Len(list) : ItemsLE(test, list[l]) => l <= k
         ELSE 0

RECURSIVE FirstFit(_, _, _)
FirstFit(test, list, j) ==
    IF j > Len(list) THEN 0
    ELSE IF list[j].t # "map" THEN -1
    ELSE IF ItemsLE(test, list[j]) THEN j
    ELSE FirstFit(test, list, j + 1)

\* mutant: the entry found stays in the working copy
RemoveAtKeeps(list, j) == list

\* list.remove of the entry found at index j
RemoveAt(list, j) == SubSeq(list, 1, j - 1) \o SubSeq(list, j + 1, Len(list))

\* the outer for loop from the i-th element of env_test on, with the working
\* copy env_helper_list and count as they stand
RECURSIVE ListLoop(_, _, _, _)
ListLoop(tests, i, env_helper_list, count) ==
    IF i > Len(tests)
    THEN IF Len(tests) # count THEN "False" ELSE "True"
    ELSE
      LET test == tests[i] IN
      IF test.t # "map"
      THEN IF ~\E j \in 1..Len(env_helper_list) :
                   PyEq(env_helper_list[j], test)
           THEN "False"
           ELSE ListLoop(tests, i + 1, env_helper_list, count + 1)
      ELSE
        LET j == FirstFit(test, env_helper_list, 1) IN
        IF j = -1 THEN "AttributeError"
        ELSE IF j = 0 THEN ListLoop(tests, i + 1, env_helper_list, count)
        ELSE ListLoop(tests, i + 1, RemoveAt(env_helper_list, j), count + 1)

\* mutant: the wildcard list is accepted without looking at env_helper
FirstIsWildcardAlways(t, h) == t.e[1] = Null

\* env_test[0] is None and len(env_helper) > 0
FirstIsWildcard(t, h) == t.e[1] = Null /\ Len(h.e) > 0

\* the final else branch: env_test is neither a dict nor a list
ScalarMatch(t, h) ==
    IF t = Null /\ h # Null THEN "True"
    ELSE IF PyEq(t, h) THEN "True"
    ELSE "False"

\* mutant: the value is accepted when a required element is contained in
\* it by the scalar rule, wildcard included
MemberWildcard(h, t) ==
    Bool(\E i \in 1..Len(t.e) :
            PyEq(t.e[i], h) \/ (t.e[i] = Null /\ h # Null))

\* env_helper in env_test for a list env_test: some element is equal to it
Member(h, t) == Bool(\E i \in 1..Len(t.e) : PyEq(t.e[i], h))

RECURSIVE DictLoop(_, _, _)
\* mutant: the loop returns once the first key has matched
DictLoopFirstKey(keys, t, h) ==
    IF keys = <<>> THEN "True"
    ELSE
      LET k == Head(keys)
          found == KeyIn(k, h)
      IN IF found = "TypeError" THEN "TypeError"
         ELSE IF found = "not in" THEN "False"
         ELSE IF h.t # "map" THEN "TypeError"
         ELSE contained(t.m[k], h.m[k])

\* the for loop over the keys of env_test, from the first of keys on
DictLoop(keys, t, h) ==
    IF keys = <<>> THEN "True"
    ELSE
      LET k == Head(keys)
          found == KeyIn(k, h)
      IN IF found = "TypeError" THEN "TypeError"
         ELSE IF found = "not in" THEN "False"
         ELSE IF h.t # "map" THEN "TypeError"
         ELSE LET r == contained(t.m[k], h.m[k])
              IN IF r = "True" THEN DictLoop(Tail(keys), t, h) ELSE r

contained(t, h) ==
    IF t.t = "map" THEN DictLoop(t.o, t, h)
    ELSE IF t.t = "list"
    THEN IF h.t # "list" THEN Member(h, t)
         ELSE IF Len(t.e) = 0 THEN "IndexError"
         ELSE IF FirstIsWildcard(t, h) THEN "True"
         ELSE ListLoop(t.e, 1, h.e, 0)
    ELSE ScalarMatch(t, h)

\* mutant: the working list is the caller's list itself
WorkingAlias(list) == [list |-> list, shared |-> TRUE]

\* env_helper_list = env_helper.copy(): a list of its own with the same
\* entries, no object shared with the caller's list
WorkingCopy(list) == [list |-> list, shared |-> FALSE]

\* the working copy as the outer for loop leaves it, by return or by raise
RECURSIVE ListLoopCopy(_, _, _, _)
ListLoopCopy(tests, i, env_helper_list, count) ==
    IF i > Len(tests) THEN env_helper_list
    ELSE
      LET test == tests[i] IN
      IF test.t # "map"
      THEN IF ~\E j \in 1..Len(env_helper_list) :
                   PyEq(env_helper_list[j], test)
           THEN env_helper_list
           ELSE ListLoopCopy(tests, i + 1, env_helper_list, count + 1)
      ELSE
        LET j == FirstFit(test, env_helper_list, 1) IN
        IF j = -1 THEN env_helper_list
        ELSE IF j = 0 THEN ListLoopCopy(tests, i + 1, env_helper_list, count)
        ELSE ListLoopCopy(tests, i + 1, RemoveAt(env_helper_list, j),
                          count + 1)

\* the call reaches the list match of lines 211-225
ReachesListLoop(t, h) ==
    /\ t.t = "list"
    /\ h.t = "list"
    /\ Len(t.e) > 0
    /\ ~FirstIsWildcard(t, h)

\* the working copy of the outermost call when it ends, <<>> when the call
\* makes none
TopWorkingCopy(t, h) ==
    IF ReachesListLoop(t, h)
    THEN ListLoopCopy(t.e, 1, WorkingCopy(h.e).list, 0)
    ELSE <<>>

\* the object the caller passed as env_helper, as the call leaves it: the
\* removals of lines 221 and the recursion of line 197 are the only places
\* that could write to it
RECURSIVE HelperAfter(_, _)
RECURSIVE DictAfter(_, _, _)
DictAfter(keys, t, h) ==
    IF keys = <<>> THEN h
    ELSE
      LET k == Head(keys) IN
      IF KeyIn(k, h) # "in" \/ h.t # "map" THEN h
      ELSE LET after == [h EXCEPT !.m[k] = HelperAfter(t.m[k], h.m[k])]
           IN IF contained(t.m[k], h.m[k]) = "True"
              THEN DictAfter(Tail(keys), t, after)
              ELSE after

HelperAfter(t, h) ==
    IF t.t = "map" THEN DictAfter(t.o, t, h)
    ELSE IF ReachesListLoop(t, h)
    THEN LET w == WorkingCopy(h.e)
         IN IF w.shared THEN List(ListLoopCopy(t.e, 1, w.list, 0)) ELSE h
    ELSE h

\* what a call returns or raises
NoOutcome == [kind |-> "none"]
Ret(value) == [kind |-> "return", value |-> value]
Err(type, args) == [kind |-> "raise", type |-> type, args |-> args]
Propagated(type) == [kind |-> "raise", type |-> type]
PyTrue == [t |-> "bool", v |-> "True"]
PyFalse == [t |-> "bool", v |-> "False"]
Text(v) == [t |-> "text", v |-> v]

\* mutant: a mismatch is returned as False
CheckOutcomeReturnsFalse(r) ==
    IF r = "True" THEN Ret(PyTrue)
    ELSE IF r = "False" THEN Ret(PyFalse)
    ELSE Propagated(r)

\* lines 236-245 after contained has come back with r: raise
\* BftEnvMismatch() without arguments, or return True; an error of
\* contained passes through
CheckOutcome(r) ==
    IF r = "True" THEN Ret(PyTrue)
    ELSE IF r = "False" THEN Err("BftEnvMismatch", <<>>)
    ELSE Propagated(r)

\* the six logger.error calls of lines 237-242
CheckLog(r, test_environment, env) ==
    IF r = "False"
    THEN <<Text("---------------------"), Text(" test case env: "),
           test_environment, Text(" env_helper   : "), env,
           Text("---------------------")>>
    ELSE <<>>

(***************************************************************************)
(* The trees the matcher is run on                                         *)
(***************************************************************************)
Scalars == {Null, Str("lan"), Str("b1")}

MapsOver(keys, values) ==
    UNION {{Map(m) : m \in [ks -> values]} : ks \in SUBSET keys}

FlatMaps ==
    UNION {Reordered(x) : x \in MapsOver({"a", "b"}, {Null, Str("lan")})}

Elements ==
    {Null, Str("lan"), List(<<>>),
     Map([a |-> Str("lan")]), Map([a |-> Null]),
     Map([a |-> Str("lan"), b |-> Str("lan")])}

Lists == UNION {{List(e) : e \in [1..n -> Elements]} : n \in 0..MaxLen}

\* maps whose value is itself a map or a sequence, as entries of a sequence
NestedEntries ==
    {Map([a |-> v]) : v \in {Map([a |-> Null]), Map([a |-> Str("lan")]),
                             List(<<Null>>), List(<<Str("lan")>>)}}

Trees ==
    Scalars \cup FlatMaps \cup Lists
        \cup {Map([a |-> v]) : v \in Lists \cup FlatMaps}
        \cup {List(<<e>>) : e \in NestedEntries}
        \cup {List(<<e>>) :
                 e \in Reordered(Map([a |-> Str("lan"), b |-> Str("lan")]))}

(***************************************************************************)
(* EnvHelper: construction and the accessors                               *)
(***************************************************************************)
\* an exception that an expression raises instead of giving a value
PyErr(type) == [t |-> "error", type |-> type]
IsPyErr(x) == x.t = "error"

\* obj[k] for a string key k
GetItem(obj, k) ==
    IF IsPyErr(obj) THEN obj
    ELSE IF obj.t = "map"
    THEN IF k \in DOMAIN obj.m THEN obj.m[k] ELSE PyErr("KeyError")
    ELSE PyErr("TypeError")

\* s[0] of a non-empty str (for the strings in use)
FirstChar(s) ==
    CASE s \in {"up.bin"} -> "u"
      [] s \in {"down.bin", "dep.bin"} -> "d"
      [] s \in {"img.bin"} -> "i"
      [] s \in {"load.bin", "lan"} -> "l"
      [] s \in {"b1", "board"} -> "b"
      [] s \in {"fs"} -> "f"
      [] s \in {"wan"} -> "w"
      [] s \in {"x"} -> "x"
      [] s \in {"http://mirror/"} -> "h"
      [] s \in {"1.0"} -> "1"
      [] s \in {"2.19"} -> "2"
      [] s \in {"9.9"} -> "9"

\* obj[0]
GetFirst(obj) ==
    IF IsPyErr(obj) THEN obj
    ELSE IF obj.t = "list"
    THEN IF Len(obj.e) > 0 THEN obj.e[1] ELSE PyErr("IndexError")
    ELSE IF obj.t = "map" THEN PyErr("KeyError")
    ELSE IF obj.t = "str"
    THEN IF obj.v = "" THEN PyErr("IndexError") ELSE Str(FirstChar(obj.v))
    ELSE PyErr("TypeError")

\* obj[path[1]][path[2]]...
RECURSIVE Lookup(_, _)
Lookup(obj, path) ==
    IF path = <<>> THEN obj
    ELSE Lookup(GetItem(obj, Head(path)), Tail(path))

\* obj.get(k, default)
DictGet(obj, k, default) ==
    IF IsPyErr(obj) THEN obj
    ELSE IF obj.t = "map"
    THEN IF k \in DOMAIN obj.m THEN obj.m[k] ELSE default
    ELSE PyErr("AttributeError")

\* the string mirror + v.v, kept as its two parts; "" + v is v
Joined(mirror, v) ==
    IF mirror = "" THEN v ELSE [t |-> "joined", l |-> mirror, r |-> v.v]

\* self.mirror + v
Concat(mirror, v) ==
    IF IsPyErr(v) THEN v
    ELSE IF v.t = "str" THEN Joined(mirror, v)
    ELSE PyErr("TypeError")

\* f"{mirror}{v}": the text of v after mirror
Format(mirror, v) ==
    IF v.t = "str" THEN Joined(mirror, v)
    ELSE [t |-> "formatted", l |-> mirror, r |-> v]

\* the versions that the assert of __init__ lets pass
VersionWhitelist ==
    {"1.0", "1.1", "1.2", "2.0", "2.1", "2.2", "2.3", "2.4", "2.5", "2.6",
     "2.7", "2.8", "2.9", "2.10", "2.11", "2.12", "2.13", "2.14", "2.15",
     "2.16", "2.17", "2.18", "2.19"}

\* env["version"] in [...]
VersionKnown(v) == v.t = "str" /\ v.v \in VersionWhitelist

\* no EnvHelper object has come back from the constructor
NoHelper == [made |-> FALSE, attrs |-> FALSE, env |-> Null, mirror |-> ""]

\* mutant: the version is read with env.get("version")
VersionOfGet(env) == DictGet(env, "version", Null)

\* env["version"]
VersionOf(env) == GetItem(env, "version")

\* EnvHelper(env, mirror): the object, and what the constructor raised
NewHelper(env, mirror) ==
    IF env = Null
    THEN [helper |-> [made |-> TRUE, attrs |-> FALSE, env |-> Null,
                      mirror |-> ""],
          outcome |-> Ret(Null)]
    ELSE LET v == VersionOf(env) IN
         IF IsPyErr(v)
         THEN [helper |-> NoHelper, outcome |-> Propagated(v.type)]
         ELSE IF ~VersionKnown(v)
         THEN [helper |-> NoHelper,
               outcome |-> Err("AssertionError",
                               <<Text("Unknown environment version!")>>)]
         ELSE [helper |-> [made |-> TRUE, attrs |-> TRUE, env |-> env,
                           mirror |-> IF mirror = Null \/ mirror = Str("")
                                      THEN "" ELSE mirror.v],
               outcome |-> Ret(Null)]

\* mutant: the constructor sets env to None before it returns
SelfEnvNone(self) == self.env

\* self.env and self.mirror: attributes that EnvHelper(None) never sets
SelfEnv(self) == IF self.attrs THEN self.env ELSE PyErr("AttributeError")
SelfMirrorPlus(self, v) ==
    IF self.attrs THEN Concat(self.mirror, v) ELSE PyErr("AttributeError")

SoftwarePath == <<"environment_def", "board", "software">>
BoardPath == <<"environment_def", "board">>

\* mutant: the accessors catch every exception
CaughtAny(type) == TRUE

\* except (KeyError, AttributeError)
Caught(type) == type \in {"KeyError", "AttributeError"}

\* try: return v / except (KeyError, AttributeError): raise BftEnvExcKeyError
TryReturn(v) ==
    IF ~IsPyErr(v) THEN Ret(v)
    ELSE IF Caught(v.type) THEN Err("BftEnvExcKeyError", <<>>)
    ELSE Propagated(v.type)

get_image(self, mirror) ==
    IF mirror
    THEN TryReturn(SelfMirrorPlus(self,
             Lookup(SelfEnv(self), SoftwarePath \o <<"image_uri">>)))
    ELSE TryReturn(Lookup(SelfEnv(self), SoftwarePath \o <<"image_uri">>))

get_downgrade_image(self) ==
    TryReturn(GetFirst(Lookup(SelfEnv(self),
                              SoftwarePath \o <<"downgrade_images">>)))

get_upgrade_image(self) ==
    TryReturn(GetFirst(Lookup(SelfEnv(self),
                              SoftwarePath \o <<"upgrade_images">>)))

\* try: self.get_...(); return True / except Exception: return False
HasIt(outcome) == IF outcome.kind = "return" THEN Ret(PyTrue) ELSE Ret(PyFalse)

has_image(self) == HasIt(get_image(self, TRUE))
has_upgrade_image(self) == HasIt(get_upgrade_image(self))
has_downgrade_image(self) == HasIt(get_downgrade_image(self))

\* sw.items() of a value that may be no dict
Items(sw) ==
    IF IsPyErr(sw) THEN sw
    ELSE IF sw.t = "map" THEN sw
    ELSE PyErr("AttributeError")

\* the loop of get_software and get_dependent_software over sw.items()
Mirrored(self, sw, skipped) ==
    LET Kept(k) == k \notin skipped IN
    Dict(SelectSeq(sw.o, Kept),
         [k \in DOMAIN sw.m \ skipped |->
            IF k \in {"load_image", "image_uri"}
            THEN Format(self.mirror, sw.m[k])
            ELSE sw.m[k]])

get_software(self) ==
    LET sw == Items(DictGet(Lookup(SelfEnv(self), BoardPath), "software",
                            Map(EmptyMap)))
    IN IF IsPyErr(sw) THEN Propagated(sw.type)
       ELSE Ret(Mirrored(self, sw, {"dependent_software"}))

get_dependent_software(self) ==
    LET d == DictGet(Lookup(SelfEnv(self), BoardPath), "software",
                     Map(EmptyMap))
        sw == Items(DictGet(d, "dependent_software", Map(EmptyMap)))
    IN IF IsPyErr(sw) THEN Propagated(sw.type)
       ELSE Ret(Mirrored(self, sw, {}))

get_flash_strategy(self) ==
    LET sw == Items(DictGet(Lookup(SelfEnv(self), BoardPath), "software",
                            Map(EmptyMap)))
    IN IF IsPyErr(sw) THEN Propagated(sw.type)
       ELSE Ret(Map([k \in DOMAIN sw.m \cap {"flash_strategy"} |->
                        Format("", sw.m[k])]))

(***************************************************************************)
(* The environment documents a helper is built from                        *)
(***************************************************************************)
Absent == [t |-> "absent"]
Opt(S) == S \cup {Absent}

\* the dict with the entries of rec that are there
Present(rec) ==
    Map([k \in {x \in DOMAIN rec : rec[x] # Absent} |-> rec[k]])

SoftwareMaps ==
    {Present([image_uri |-> iu, load_image |-> li, upgrade_images |-> up,
              downgrade_images |-> dn, dependent_software |-> dep,
              flash_strategy |-> fs]) :
        iu \in Opt({Str("img.bin")}),
        li \in Opt({Str("load.bin")}),
        up \in Opt({List(<<>>), List(<<Str("up.bin")>>)}),
        dn \in Opt({List(<<>>), List(<<Str("down.bin")>>)}),
        dep \in Opt({Map(EmptyMap), Map([image_uri |-> Str("dep.bin")])}),
        fs \in Opt({Str("fs")})}

BoardMaps ==
    {Present([software |-> sw]) : sw \in Opt(SoftwareMaps)}

EnvironmentDefs ==
    {Present([board |-> b]) : b \in Opt(BoardMaps)}

Documents ==
    {Null} \cup
    {Present([version |-> v, environment_def |-> d]) :
        v \in Opt({Str("1.0"), Str("2.19"), Str("9.9")}),
        d \in Opt(EnvironmentDefs)}

Mirrors == {Null, Str("http://mirror/")}

(***************************************************************************)
(* EnvHelper.env_devices                                                   *)
(***************************************************************************)
\* devices[k] = v
Put(d, k, v) == [x \in DOMAIN d \cup {k} |-> IF x = k THEN v ELSE d[x]]

\* type(obj) == dict and "device_type" in obj
IsDevice(obj) == obj.t = "map" /\ "device_type" \in DOMAIN obj.m

\* mutant: an empty list is no list of devices
AllDevicesNonEmpty(v) ==
    Len(v.e) > 0 /\ \A i \in 1..Len(v.e) : IsDevice(v.e[i])

\* all(type(obj) == dict and "device_type" in obj for obj in v)
AllDevices(v) == \A i \in 1..Len(v.e) : IsDevice(v.e[i])

\* find_device_arrays(env), from the first of keys on, with devices as
\* it stands
RECURSIVE find_device_arrays(_, _, _)
find_device_arrays(keys, env, devs) ==
    IF keys = <<>> THEN devs
    ELSE
      LET k == Head(keys)
          v == env.m[k]
          afterDict ==
              IF v.t = "map"
              THEN find_device_arrays(v.o, v,
                       IF "device_type" \in DOMAIN v.m
                       THEN Put(devs, k, List(<<v>>))
                       ELSE devs)
              ELSE devs
          afterList ==
              IF v.t = "list" /\ AllDevices(v)
              THEN Put(afterDict, k, v)
              ELSE afterDict
      IN find_device_arrays(Tail(keys), env, afterList)

env_devices(doc) ==
    find_device_arrays(doc.o, doc, EmptyMap)

\* the documents env_devices is run on
Lan == Map([device_type |-> Str("lan")])
Wan == Map([device_type |-> Str("wan")])

DevLeaves ==
    {Str("x"), Lan, List(<<>>), List(<<Wan>>), List(<<Lan, Str("x")>>),
     List(<<Map([lan |-> Lan])>>)}

DevMapsOver(values) ==
    {Present([device_type |-> dt, lan |-> l, wan |-> w]) :
        dt \in Opt({Str("board")}), l \in Opt(values), w \in Opt(values)}

\* maps whose lan key is also a key one level down, in both insertion orders
DevNested ==
    UNION {Reordered(Map([lan |-> l, wan |-> Map([lan |-> Lan])])) :
              l \in {Str("x"), List(<<>>), List(<<Wan>>)}}

DevDocuments ==
    UNION {Reordered(Present([lan |-> l, wan |-> w])) :
              l \in Opt(DevLeaves \cup DevMapsOver(DevLeaves)),
              w \in Opt(DevLeaves \cup DevMapsOver(DevLeaves))}
      \cup {Map([lan |-> n]) : n \in DevNested}

(***************************************************************************)
(* probe_devices: the scan of the device modules                           *)
(***************************************************************************)
MaxProbes == 2

\* the device modules that walk_library can hand to the scan
Modules ==
    {"boardfarm.devices.modem", "boardfarm.devices.wifi",
     "boardfarm.devices.misc"}

\* dir(module) with getattr(module, thing_name), in the order of dir: D1
\* is imported by wifi, D3 by misc, and wifi binds D3 to a second name
Namespace(module) ==
    CASE module = "boardfarm.devices.modem" ->
             <<[name |-> "Base", thing |-> "Base"],
               [name |-> "D1", thing |-> "D1"],
               [name |-> "D2", thing |-> "D2"],
               [name |-> "logger", thing |-> "logger"]>>
      [] module = "boardfarm.devices.wifi" ->
             <<[name |-> "D1", thing |-> "D1"],
               [name |-> "D3", thing |-> "D3"],
               [name |-> "Legacy", thing |-> "D3"],
               [name |-> "logger", thing |-> "logger"]>>
      [] module = "boardfarm.devices.misc" ->
             <<[name |-> "Base", thing |-> "Base"],
               [name |-> "D3", thing |-> "D3"],
               [name |-> "D4", thing |-> "D4"]>>

Things == {"Base", "D1", "D2", "D3", "D4", "logger"}

\* inspect.isclass(thing)
IsClass(thing) == thing \in {"Base", "D1", "D2", "D3", "D4"}

\* hasattr(thing, "model")
HasModel(thing) == thing \in {"D1", "D2", "D3", "D4"}

\* thing.__module__
ModuleOf(thing) ==
    CASE thing \in {"Base", "D1", "D2"} -> "boardfarm.devices.modem"
      [] thing = "D3" -> "boardfarm.devices.wifi"
      [] thing = "D4" -> "boardfarm.devices.misc"
      [] thing = "logger" -> "logging"

\* the test of lines 58-63
Recorded(thing, module) ==
    /\ IsClass(thing)
    /\ HasModel(thing)
    /\ ModuleOf(thing) = module

\* the inner for loop: what is appended to device_mappings[module]
RECURSIVE Scan(_, _)
Scan(names, module) ==
    IF names = <<>> THEN <<>>
    ELSE (IF Recorded(Head(names).thing, module)
          THEN <<Head(names).thing>> ELSE <<>>)
         \o Scan(Tail(names), module)

\* device_mappings[module] = devs: an entry that is there keeps its place
SetEntry(mappings, module, devs) ==
    IF \E i \in 1..Len(mappings) : mappings[i].module = module
    THEN [i \in 1..Len(mappings) |->
             IF mappings[i].module = module
             THEN [module |-> module, devs |-> devs]
             ELSE mappings[i]]
    ELSE Append(mappings, [module |-> module, devs |-> devs])

\* the for loop over all_mods
RECURSIVE ProbeLoop(_, _)
ProbeLoop(mods, mappings) ==
    IF mods = <<>> THEN mappings
    ELSE ProbeLoop(Tail(mods),
                   SetEntry(mappings, Head(mods),
                            Scan(Namespace(Head(mods)), Head(mods))))

\* device_module.load_module() of boardfarm.devices, a module that is
\* loaded already, runs devices/__init__.py again in the same module
\* object: class DeviceMappings is made anew with an empty dev_mappings
\* and the global device_mappings is bound to that dict; the dict that
\* was the registry is no longer the registry
Reloaded(mappings) == <<>>

\* device_mappings after probe_devices() has scanned mods: the loop fills
\* the dict that the reload has bound
probe_devices(mappings, mods) == ProbeLoop(mods, Reloaded(mappings))

(***************************************************************************)
(* get_device as a process: the call, one step per initializer, the end    *)
(***************************************************************************)
\* bf_node's instance: the classes it is built from and ret.target
Composite(list, target) == [cls_list |-> list, target |-> target]

\* kwargs.pop(name, False)
PopFlag(arg) == IF arg.given THEN arg.v ELSE FALSE

\* mutant: the two flags change places in the registration call
AddDeviceSwapped(devices, mgr, ret, ov, pl) ==
    IF mgr # "None"
    THEN Append(devices, [dev |-> ret, override |-> pl, plugin |-> ov])
    ELSE devices

\* device_mgr._add_device(ret, override, plugin), skipped without a manager
AddDevice(devices, mgr, ret, ov, pl) ==
    IF mgr # "None"
    THEN Append(devices, [dev |-> ret, override |-> ov, plugin |-> pl])
    ELSE devices

\* mutant: the profile extensions come first
FinalListProfileFirst(primaries, profile_list) == profile_list \o primaries

\* cls_list.extend(profile_list)
FinalList(primaries, profile_list) == primaries \o profile_list

NoExc == Exc("none", <<>>, {}, <<>>, "none")

\* the outcome of the try block up to the creation of the composite type:
\* an exception, or none when the initializers are to run
BeforeInit(list, m) ==
    IF Len(list) = 0 THEN Raised(Handle(NotSupported(m), m))
    ELSE IF FirstConflict(list) # 0
         THEN Raised(Handle(DuplicateMembers(list, FirstConflict(list)), m))
         ELSE NoResult

\* get_device is called: lines 178-221, the check of line 222 and bf_node
\* up to the instantiation of the composite type
GetDevice(m, mgr, ov, pl, base) ==
    /\ pc = "idle"
    /\ LET st == Resolve(device_mappings, m, base, profile_obj)
           list == FinalList(st.cls_list, st.profile_list)
           out == BeforeInit(list, m)
       IN /\ model' = m
          /\ device_mgr' = mgr
          /\ arg_override' = ov
          /\ arg_plugin' = pl
          /\ arg_kwargs' = base
          /\ arg_profile' = profile_obj
          /\ override' = PopFlag(ov)
          /\ plugin' = PopFlag(pl)
          /\ kwargs' = st.kwargs
          /\ profile_obj' = [profile_obj EXCEPT !.map = st.profile]
          /\ cls_list' = list
          /\ n_primary' = Len(st.cls_list)
          /\ idx' = 1
          /\ inits' = <<>>
          /\ init_exc' = NoExc
          /\ result' = out
          /\ pc' = IF out.kind = "raise" THEN "done" ELSE "init"
    /\ UNCHANGED <<device_mappings, mgr_devices>>
    /\ UNCHANGED nonCompVars

\* one invocation cls.__init__(self, model, mgr=device_mgr, **kwargs)
Invocation(cls, m, mgr, kw) == [cls |-> cls, model |-> m, mgr |-> mgr, kwargs |-> kw]

\* the initializer of cls_list[idx] runs and returns
InitReturn ==
    /\ pc = "init"
    /\ inits' = Append(inits, Invocation(cls_list[idx], model, device_mgr, kwargs))
    /\ idx' = idx + 1
    /\ pc' = IF idx = Len(cls_list) THEN "finish" ELSE "init"
    /\ UNCHANGED <<device_mappings, profile_obj, mgr_devices, model, device_mgr,
                   arg_override, arg_plugin, arg_kwargs, arg_profile, override, plugin,
                   kwargs,
                   cls_list, n_primary, init_exc, result>>
    /\ UNCHANGED nonCompVars

\* the initializer of cls_list[idx] runs and raises e
InitRaise(e) ==
    /\ pc = "init"
    /\ inits' = Append(inits, Invocation(cls_list[idx], model, device_mgr, kwargs))
    /\ init_exc' = e
    /\ result' = Raised(Handle(e, model))
    /\ pc' = "done"
    /\ UNCHANGED <<device_mappings, profile_obj, mgr_devices, model, device_mgr,
                   arg_override, arg_plugin, arg_kwargs, arg_profile, override, plugin,
                   kwargs,
                   cls_list, n_primary, idx>>
    /\ UNCHANGED nonCompVars

\* ret.target = kwargs, the registration and the return
Finish ==
    /\ pc = "finish"
    /\ LET ret == Composite(cls_list, kwargs)
       IN /\ mgr_devices' = AddDevice(mgr_devices, device_mgr, ret, override, plugin)
          /\ result' = Returned(ret)
    /\ pc' = "done"
    /\ UNCHANGED <<device_mappings, profile_obj, model, device_mgr,
                   arg_override, arg_plugin, arg_kwargs, arg_profile, override, plugin,
                   kwargs,
                   cls_list, n_primary, idx, inits, init_exc>>
    /\ UNCHANGED nonCompVars

NoFlag == [given |-> FALSE, v |-> FALSE]

ConcIdle ==
    /\ threads = <<>>
    /\ conc_helper = Null

ProbeIdle ==
    /\ all_mods = <<>>
    /\ prev_mappings = <<>>
    /\ n_probes = 0

DevIdle ==
    /\ env_json = Map(EmptyMap)
    /\ dev_pc = "idle"
    /\ dev_result = EmptyMap

NoCall == [name |-> "none", args |-> <<>>]
Call(name, args) == [name |-> name, args |-> args]

HelperIdle ==
    /\ h_env = Null
    /\ h_mirror = Null
    /\ helper = NoHelper
    /\ h_pc = "idle"
    /\ h_call = NoCall
    /\ h_outcome = NoOutcome

EnvIdle ==
    /\ env_test = [t |-> "null"]
    /\ env_helper = [t |-> "null"]
    /\ env_pc = "idle"
    /\ env_result = "none"
    /\ env_work = <<>>
    /\ env_outcome = NoOutcome
    /\ env_log = <<>>

Init ==
    /\ device_mappings \in RegistryChoices
    /\ profile_obj \in ProfileChoices
    /\ mgr_devices = <<>>
    /\ pc = "idle"
    /\ model = "none"
    /\ device_mgr = "None"
    /\ arg_override = NoFlag
    /\ arg_plugin = NoFlag
    /\ arg_kwargs = EmptyMap
    /\ arg_profile = [present |-> FALSE, map |-> EmptyMap]
    /\ override = FALSE
    /\ plugin = FALSE
    /\ kwargs = EmptyMap
    /\ cls_list = <<>>
    /\ n_primary = 0
    /\ idx = 1
    /\ inits = <<>>
    /\ init_exc = NoExc
    /\ result = NoResult
    /\ EnvIdle
    /\ HelperIdle
    /\ DevIdle
    /\ ProbeIdle
    /\ ConcIdle

Next ==
    \/ \E m \in Models, mgr \in Managers, ov \in FlagArgs, pl \in FlagArgs,
          base \in BaseKwargs : GetDevice(m, mgr, ov, pl, base)
    \/ InitReturn
    \/ \E e \in InitErrors : InitRaise(e)
    \/ Finish

Spec == Init /\ [][Next]_vars

\* the call is over and its locals are gone; the caller, whose profile map
\* the call has changed, goes on to call get_device again with the same
\* profile object
Reuse ==
    /\ pc = "done"
    /\ profile_obj # arg_profile
    /\ pc' = "idle"
    /\ model' = "none"
    /\ device_mgr' = "None"
    /\ arg_override' = NoFlag
    /\ arg_plugin' = NoFlag
    /\ arg_kwargs' = EmptyMap
    /\ arg_profile' = [present |-> FALSE, map |-> EmptyMap]
    /\ override' = FALSE
    /\ plugin' = FALSE
    /\ kwargs' = EmptyMap
    /\ cls_list' = <<>>
    /\ n_primary' = 0
    /\ idx' = 1
    /\ inits' = <<>>
    /\ init_exc' = NoExc
    /\ result' = NoResult
    /\ UNCHANGED <<device_mappings, profile_obj, mgr_devices>>
    /\ UNCHANGED nonCompVars

NextReuse ==
    \/ \E m \in Models, base \in BaseKwargs :
          GetDevice(m, "None", NoFlag, NoFlag, base)
    \/ InitReturn
    \/ \E e \in InitErrors : InitRaise(e)
    \/ Finish
    \/ Reuse

SpecReuse == Init /\ [][NextReuse]_vars

(***************************************************************************)
(* The matcher as a process: one call of contained                         *)
(***************************************************************************)
CompIdle ==
    /\ device_mappings = <<>>
    /\ profile_obj = [present |-> FALSE, map |-> EmptyMap]
    /\ mgr_devices = <<>>
    /\ pc = "idle"
    /\ model = "none"
    /\ device_mgr = "None"
    /\ arg_override = NoFlag
    /\ arg_plugin = NoFlag
    /\ arg_kwargs = EmptyMap
    /\ arg_profile = [present |-> FALSE, map |-> EmptyMap]
    /\ override = FALSE
    /\ plugin = FALSE
    /\ kwargs = EmptyMap
    /\ cls_list = <<>>
    /\ n_primary = 0
    /\ idx = 1
    /\ inits = <<>>
    /\ init_exc = NoExc
    /\ result = NoResult

InitEnv ==
    /\ CompIdle
    /\ HelperIdle
    /\ DevIdle
    /\ ProbeIdle
    /\ ConcIdle
    /\ env_test \in Trees
    /\ env_helper \in Trees
    /\ env_pc = "idle"
    /\ env_result = "none"
    /\ env_work = <<>>
    /\ env_outcome = NoOutcome
    /\ env_log = <<>>

\* env_check(env_test) of a helper whose env is env_helper: the call of
\* contained and what follows it
EnvCheck ==
    /\ env_pc = "idle"
    /\ env_result' = contained(env_test, env_helper)
    /\ env_test' = env_test
    /\ env_helper' = HelperAfter(env_test, env_helper)
    /\ env_work' = TopWorkingCopy(env_test, env_helper)
    /\ env_outcome' = CheckOutcome(contained(env_test, env_helper))
    /\ env_log' = CheckLog(contained(env_test, env_helper), env_test,
                           HelperAfter(env_test, env_helper))
    /\ env_pc' = "done"
    /\ UNCHANGED nonEnvVars

NextEnv == EnvCheck

SpecEnv == InitEnv /\ [][NextEnv]_vars

(***************************************************************************)
(* EnvHelper as a process: the constructor, then accessor calls            *)
(***************************************************************************)
InitHelper ==
    /\ CompIdle
    /\ EnvIdle
    /\ DevIdle
    /\ ProbeIdle
    /\ ConcIdle
    /\ h_env \in Documents
    /\ h_mirror \in Mirrors
    /\ helper = NoHelper
    /\ h_pc = "new"
    /\ h_call = NoCall
    /\ h_outcome = NoOutcome

\* EnvHelper(h_env, h_mirror)
Construct ==
    /\ h_pc = "new"
    /\ LET new == NewHelper(h_env, h_mirror) IN
         /\ helper' = new.helper
         /\ h_outcome' = new.outcome
         /\ h_pc' = IF new.helper.made THEN "built" ELSE "failed"
    /\ h_call' = Call("EnvHelper", <<>>)
    /\ UNCHANGED <<h_env, h_mirror>>
    /\ UNCHANGED nonHelperVars

\* a call of a method that leaves the helper as it is
Accessor(name, args, outcome) ==
    /\ h_pc = "built"
    /\ h_call' = Call(name, args)
    /\ h_outcome' = outcome
    /\ UNCHANGED <<h_env, h_mirror, helper, h_pc>>
    /\ UNCHANGED nonHelperVars

GetImage ==
    \E mirror \in BOOLEAN :
        Accessor("get_image", <<IF mirror THEN PyTrue ELSE PyFalse>>,
                 get_image(helper, mirror))
HasImage == Accessor("has_image", <<>>, has_image(helper))
GetDowngradeImage ==
    Accessor("get_downgrade_image", <<>>, get_downgrade_image(helper))
GetUpgradeImage ==
    Accessor("get_upgrade_image", <<>>, get_upgrade_image(helper))
HasUpgradeImage ==
    Accessor("has_upgrade_image", <<>>, has_upgrade_image(helper))
HasDowngradeImage ==
    Accessor("has_downgrade_image", <<>>, has_downgrade_image(helper))
GetSoftware == Accessor("get_software", <<>>, get_software(helper))
GetDependentSoftware ==
    Accessor("get_dependent_software", <<>>, get_dependent_software(helper))
GetFlashStrategy ==
    Accessor("get_flash_strategy", <<>>, get_flash_strategy(helper))

NextHelper ==
    \/ Construct
    \/ GetImage
    \/ HasImage
    \/ GetDowngradeImage
    \/ GetUpgradeImage
    \/ HasUpgradeImage
    \/ HasDowngradeImage
    \/ GetSoftware
    \/ GetDependentSoftware
    \/ GetFlashStrategy

SpecHelper == InitHelper /\ [][NextHelper]_vars

(***************************************************************************)
(* env_devices as a process: one call                                      *)
(***************************************************************************)
InitDevices ==
    /\ CompIdle
    /\ EnvIdle
    /\ HelperIdle
    /\ ProbeIdle
    /\ ConcIdle
    /\ env_json \in DevDocuments
    /\ dev_pc = "idle"
    /\ dev_result = EmptyMap

\* EnvHelper.env_devices(env_json)
EnvDevices ==
    /\ dev_pc = "idle"
    /\ dev_result' = env_devices(env_json)
    /\ dev_pc' = "done"
    /\ UNCHANGED env_json
    /\ UNCHANGED nonDevVars

NextDevices == EnvDevices

SpecDevices == InitDevices /\ [][NextDevices]_vars

(***************************************************************************)
(* probe_devices as a process: repeated calls                              *)
(***************************************************************************)
InitProbe ==
    /\ CompIdle
    /\ EnvIdle
    /\ HelperIdle
    /\ DevIdle
    /\ ProbeIdle
    /\ ConcIdle

\* probe_devices(), the walk of the libraries giving mods
ProbeDevices ==
    /\ n_probes < MaxProbes
    /\ \E mods \in InjSeqs(Modules, Cardinality(Modules)) :
         /\ all_mods' = mods
         /\ device_mappings' = probe_devices(device_mappings, mods)
    /\ prev_mappings' = device_mappings
    /\ n_probes' = n_probes + 1
    /\ UNCHANGED nonProbeVars

NextProbe == ProbeDevices

SpecProbe == InitProbe /\ [][NextProbe]_vars

(***************************************************************************)
(* Concurrent calls of contained on the same two trees                     *)
(***************************************************************************)
Threads == {1, 2}

\* the locals of a call that has not started
NotStarted ==
    [pc |-> "start", i |-> 1, count |-> 0, list |-> <<>>, shared |-> FALSE,
     result |-> "none"]

InitConc ==
    /\ CompIdle
    /\ HelperIdle
    /\ DevIdle
    /\ ProbeIdle
    /\ env_test \in Trees
    /\ env_helper \in Trees
    /\ env_pc = "idle"
    /\ env_result = "none"
    /\ env_work = <<>>
    /\ env_outcome = NoOutcome
    /\ env_log = <<>>
    /\ threads = [th \in Threads |-> NotStarted]
    /\ conc_helper = env_helper

\* the list a call works on: its own copy, or the caller's list when the
\* working list shares it
WorkList(th) ==
    IF threads[th].shared THEN env_helper.e ELSE threads[th].list

\* a call starts: up to the copy of line 211 when it reaches the list
\* match, else to its return, which reads the trees and writes nothing
Begin(th) ==
    /\ threads[th].pc = "start"
    /\ IF ReachesListLoop(env_test, env_helper)
       THEN LET w == WorkingCopy(env_helper.e) IN
            threads' = [threads EXCEPT ![th] =
                           [@ EXCEPT !.pc = "loop", !.list = w.list,
                                     !.shared = w.shared]]
       ELSE threads' = [threads EXCEPT ![th] =
                           [@ EXCEPT !.pc = "done",
                                     !.result = contained(env_test,
                                                          env_helper)]]
    /\ UNCHANGED env_helper
    /\ UNCHANGED nonConcVars

\* mutant: a required scalar that is present is removed from the working
\* list like a map entry
IterateRemovesScalar(th) ==
    /\ threads[th].pc = "loop"
    /\ threads[th].i <= Len(env_test.e)
    /\ LET me == threads[th]
           test == env_test.e[me.i]
           list == WorkList(th)
           j == IF test.t = "map" THEN FirstFit(test, list, 1)
                ELSE IF \E k \in 1..Len(list) : PyEq(list[k], test)
                     THEN CHOOSE k \in 1..Len(list) : PyEq(list[k], test)
                     ELSE 0
           removed == IF j > 0 THEN RemoveAt(list, j) ELSE list
       IN /\ threads' = [threads EXCEPT ![th] =
                 IF test.t # "map" /\ j = 0
                 THEN [me EXCEPT !.pc = "done", !.result = "False"]
                 ELSE IF j = -1
                 THEN [me EXCEPT !.pc = "done", !.result = "AttributeError"]
                 ELSE IF j = 0 THEN [me EXCEPT !.i = @ + 1]
                 ELSE [me EXCEPT !.i = @ + 1, !.count = @ + 1,
                                 !.list = IF me.shared THEN @ ELSE removed]]
          /\ env_helper' = IF me.shared THEN List(removed) ELSE env_helper
    /\ UNCHANGED nonConcVars

\* one pass of the outer for loop of lines 212-222
Iterate(th) ==
    /\ threads[th].pc = "loop"
    /\ threads[th].i <= Len(env_test.e)
    /\ LET me == threads[th]
           test == env_test.e[me.i]
           list == WorkList(th)
           j == IF test.t = "map" THEN FirstFit(test, list, 1) ELSE 0
           removed == IF j > 0 THEN RemoveAt(list, j) ELSE list
       IN /\ threads' = [threads EXCEPT ![th] =
                 IF test.t # "map"
                 THEN IF ~\E k \in 1..Len(list) : PyEq(list[k], test)
                      THEN [me EXCEPT !.pc = "done", !.result = "False"]
                      ELSE [me EXCEPT !.i = @ + 1, !.count = @ + 1]
                 ELSE IF j = -1
                 THEN [me EXCEPT !.pc = "done", !.result = "AttributeError"]
                 ELSE IF j = 0 THEN [me EXCEPT !.i = @ + 1]
                 ELSE [me EXCEPT !.i = @ + 1, !.count = @ + 1,
                                 !.list = IF me.shared THEN @ ELSE removed]]
          /\ env_helper' = IF me.shared THEN List(removed) ELSE env_helper
    /\ UNCHANGED nonConcVars

\* lines 223-225: the loop is over
End(th) ==
    /\ threads[th].pc = "loop"
    /\ threads[th].i > Len(env_test.e)
    /\ threads' = [threads EXCEPT ![th] =
           [@ EXCEPT !.pc = "done",
                     !.result = IF Len(env_test.e) # threads[th].count
                                THEN "False" ELSE "True"]]
    /\ UNCHANGED env_helper
    /\ UNCHANGED nonConcVars

NextConc ==
    \E th \in Threads : Begin(th) \/ Iterate(th) \/ End(th)

SpecConc == InitConc /\ [][NextConc]_vars

(***************************************************************************)
(* Properties of get_device                                                *)
(***************************************************************************)
Registry == Flatten(device_mappings)

\* the Descriptor's alias is the model (single alias) or contains it (tuple)
HasAlias(d, m) == m \in Range(ModelAttr(d).names)

Called == pc # "idle"

IsConflict(r) ==
    r.kind = "raise" /\ r.exc.type = "Exception" /\ r.exc.common # {}

\* some two Descriptors of the sequence export a common non-reserved member
SharePair(list) ==
    \E i, j \in 1..Len(list) :
        i < j /\ Members(list[i]) \cap Members(list[j]) # {}

\* the members a composite exposes: those of all its classes
Exposes(dev) == UNION {ClsDict(c) : c \in Range(dev.cls_list)}

\* C1 (as claimed): whenever no registered Descriptor has the requested model
\* as alias, whatever config.profile holds, get_device ends with
\* BftNotSupportedDevice and no composite is built and no initializer runs.
C1_NoAliasRaisesNotSupported ==
    (Called /\ ~\E d \in Range(Registry) : HasAlias(d, model))
        => /\ pc = "done"
           /\ result.kind = "raise"
           /\ result.exc.type = "BftNotSupportedDevice"
           /\ inits = <<>>

\* C2: the call fails with the duplicate-member error exactly when two
\* Descriptors of the selected sequence share a non-reserved member, and a
\* composite that is returned is built from pairwise disjoint member sets.
C2_ConflictIffSharedMember ==
    (Called /\ Len(cls_list) > 0)
        => /\ IsConflict(result) <=> SharePair(cls_list)
           /\ IsConflict(result) => pc = "done" /\ inits = <<>>
           /\ result.kind = "return" => ~SharePair(result.dev.cls_list)

C2_Witness ==
    /\ pc = "done"
    /\ IsConflict(result)
    /\ Len(cls_list) = 3
    /\ Members(cls_list[1]) \cap Members(cls_list[3]) # {}
    /\ Members(cls_list[2]) \cap Members(cls_list[3]) = {}

ScenarioA ==
    /\ Registry = <<"D1", "D2">>
    /\ model = "modemA"
    /\ arg_profile = [present |-> TRUE, map |-> [modemA |-> [mode |-> "bridge"]]]
    /\ pc = "done"
    /\ result.kind = "return"

\* C3 (as claimed): in scenario A the composite is built from D1 and D2,
\* exposes start, stop and configure, and its target holds mode = bridge.
C3_ScenarioATargetHasMode ==
    ScenarioA
        => /\ result.dev.cls_list = <<"D1", "D2">>
           /\ {"start", "stop", "configure"} \subseteq Exposes(result.dev)
           /\ "mode" \in DOMAIN result.dev.target
           /\ result.dev.target["mode"] = "bridge"

\* C3 (amended): in scenario A the composite is built from D1 and D2 and
\* exposes start, stop and configure; both Descriptors are primaries, so the
\* override map under the key modemA is not merged: target is the caller's
\* configuration with the profile map under the key profile, and it holds
\* mode = bridge only if the caller passed that itself.
C3_ScenarioAProfileNotMerged ==
    ScenarioA
        => /\ result.dev.cls_list = <<"D1", "D2">>
           /\ {"start", "stop", "configure"} \subseteq Exposes(result.dev)
           /\ result.dev.target = Update(arg_kwargs, [profile |-> "@profile"])
           /\ profile_obj = arg_profile
           /\ ~("mode" \in DOMAIN result.dev.target
                  /\ result.dev.target["mode"] = "bridge")

C3_Witness == ScenarioA /\ arg_kwargs = EmptyMap /\ Len(inits) = 2

PassedThrough == {"BftNotSupportedDevice", "ConnectionRefused", "EOF"}

OtherInitError ==
    /\ pc = "done"
    /\ init_exc.type \notin {"none"} \cup PassedThrough
    /\ IsException(init_exc.type)

NotRetried ==
    /\ Len(inits) = idx
    /\ \A i, j \in 1..Len(inits) : inits[i].cls = inits[j].cls => i = j

\* C4 (as claimed): another error of an initializer reaches the caller as a
\* wrapper that carries the requested model name and the original failure,
\* and the initializer is not retried.
C4_WrapperCarriesModel ==
    OtherInitError
        => /\ result.kind = "raise"
           /\ result.exc.type = "Exception"
           /\ model \in Range(result.exc.msg)
           /\ result.exc.context = init_exc.type
           /\ NotRetried

\* C4 (amended): another Exception-derived error of an initializer reaches
\* the caller as a new generic Exception whose message is the message of the
\* original error and nothing else (the model name is not added), with the
\* original error as its context; an error that does not derive from
\* Exception reaches the caller unchanged; the initializer is not retried.
C4_WrapperCarriesMessageOnly ==
    /\ OtherInitError
          => /\ result.kind = "raise"
             /\ result.exc.type = "Exception"
             /\ result.exc.msg = init_exc.msg
             /\ model \notin Range(result.exc.msg)
             /\ result.exc.context = init_exc.type
             /\ NotRetried
    /\ (pc = "done" /\ init_exc.type # "none" /\ ~IsException(init_exc.type))
          => result = Raised(init_exc) /\ NotRetried

C4_Witness == OtherInitError /\ init_exc.type = "ValueError" /\ idx = 2

\* C5: a ConnectionRefused raised by an initializer, at any position of the
\* sequence, reaches the caller as the very same error, not wrapped.
C5_RefusalPropagates ==
    (pc = "done" /\ init_exc.type = "ConnectionRefused")
        => /\ result = Raised(init_exc)
           /\ result.exc.type = "ConnectionRefused"
           /\ result.exc.context = "none"

C5_Witness ==
    /\ pc = "done"
    /\ init_exc.type = "ConnectionRefused"
    /\ idx = 3
    /\ Len(cls_list) = 3

PrimaryDev(d) == "model" \in ClsDict(d) /\ IsPrimary(ModelAttr(d), model)
ExtensionDev(d) ==
    /\ "model" \in ClsDict(d)
    /\ ~IsPrimary(ModelAttr(d), model)
    /\ ProfileKeys(ModelAttr(d), arg_profile.map) # {}

\* C6: a composite is returned only after the initializers of all primaries
\* in registry order, then of all profile extensions in registry order, ran
\* once each with the same model, manager and merged configuration, which is
\* the composite's target.
C6_InitializersInResolutionOrder ==
    (pc = "done" /\ result.kind = "return")
        => /\ [i \in 1..Len(inits) |-> inits[i].cls]
                 = SelectSeq(Registry, PrimaryDev) \o SelectSeq(Registry, ExtensionDev)
           /\ result.dev.cls_list = [i \in 1..Len(inits) |-> inits[i].cls]
           /\ \A i, j \in 1..Len(inits) : inits[i].cls = inits[j].cls => i = j
           /\ \A i \in 1..Len(inits) :
                 inits[i] = Invocation(inits[i].cls, model, device_mgr,
                                       result.dev.target)

C6_Witness ==
    /\ pc = "done"
    /\ result.kind = "return"
    /\ n_primary = 2
    /\ Len(cls_list) = 3
    /\ Registry[1] = cls_list[3]
    /\ arg_kwargs # kwargs

\* C7 (as claimed): an initializer runs only if a primary candidate was found
\* and the conflict check passed; the registration is made at most once, only
\* after all initializers returned, never without a manager, so a failing
\* call leaves the manager's collection as it was.
C7_PhasesOrdered ==
    /\ inits # <<>> => n_primary > 0 /\ ~SharePair(cls_list)
    /\ Len(mgr_devices) <= 1
    /\ mgr_devices # <<>>
          => /\ device_mgr # "None"
             /\ result.kind = "return"
             /\ Len(inits) = Len(cls_list)
    /\ result.kind = "raise" => mgr_devices = <<>>

\* C8: with a manager the registration call gets the composite returned and
\* the caller's override and plugin_device values, False for one not given,
\* whatever the profile merged into the configuration.
C8_FlagsForwarded ==
    /\ (pc = "done" /\ result.kind = "return" /\ device_mgr # "None")
          => mgr_devices =
                <<[dev |-> result.dev,
                   override |-> IF arg_override.given THEN arg_override.v ELSE FALSE,
                   plugin |-> IF arg_plugin.given THEN arg_plugin.v ELSE FALSE]>>
    /\ (pc = "done" /\ device_mgr = "None") => mgr_devices = <<>>

C8_Witness ==
    /\ pc = "done"
    /\ result.kind = "return"
    /\ device_mgr = "mgr"
    /\ arg_override = [given |-> TRUE, v |-> TRUE]
    /\ arg_plugin = [given |-> FALSE, v |-> FALSE]
    /\ "override" \in DOMAIN kwargs
    /\ Len(mgr_devices) = 1

(***************************************************************************)
(* Properties of contained                                                 *)
(***************************************************************************)
\* C9 (as claimed): contained(E, E) is true for every tree E, the empty
\* sequence and sequences of maps, scalars and wildcards included.
C9_Reflexive ==
    (env_pc = "done" /\ env_test = env_helper) => env_result = "True"

\* C10: a required null is contained in every available value but null; a
\* required sequence that starts with null is contained in every non-empty
\* available sequence, whatever both hold besides, and in no empty one.
C10_Wildcard ==
    env_pc = "done"
        => /\ (env_test = Null /\ env_helper # Null) => env_result = "True"
           /\ (/\ env_test.t = "list"
               /\ Len(env_test.e) > 0
               /\ env_test.e[1] = Null
               /\ env_helper.t = "list")
                 => env_result = Bool(Len(env_helper.e) > 0)

C10_Witness ==
    /\ env_pc = "done"
    /\ env_test = List(<<Null, Map([a |-> Str("lan")])>>)
    /\ env_helper = List(<<Str("lan")>>)
    /\ env_result = "True"

\* the required entries of a list that are maps, by index
MapEntries(t) == {i \in 1..Len(t.e) : t.e[i].t = "map"}

\* an assignment of the required map entries to pairwise different
\* available entries, each of which satisfies the entry assigned to it
NoReuseMatching(t, h) ==
    \E f \in [MapEntries(t) -> 1..Len(h.e)] :
        /\ \A i, j \in MapEntries(t) : f[i] = f[j] => i = j
        /\ \A i \in MapEntries(t) :
              h.e[f[i]].t = "map" /\ ItemsLE(t.e[i], h.e[f[i]])

\* C11: in list-of-map matching no available entry is counted for two
\* required map entries: when a required sequence that does not start with
\* the wildcard is contained in an available sequence, its map entries are
\* satisfied by pairwise different available entries, so n required map
\* entries need n available entries that satisfy them; a required pair of
\* equal maps against the one available map that satisfies both is false.
C11_NoReuse ==
    (/\ env_pc = "done"
     /\ env_test.t = "list"
     /\ env_helper.t = "list"
     /\ Len(env_test.e) > 0
     /\ env_test.e[1] # Null)
        => /\ env_result = "True" => NoReuseMatching(env_test, env_helper)
           /\ (/\ env_test = List(<<Map([a |-> Str("lan")]),
                                    Map([a |-> Str("lan")])>>)
               /\ env_helper =
                      List(<<Map([a |-> Str("lan"), b |-> Str("lan")])>>))
                 => env_result = "False"

C11_Witness ==
    /\ env_pc = "done"
    /\ env_test = List(<<Map([a |-> Str("lan")]), Map([a |-> Str("lan")])>>)
    /\ env_helper = List(<<Map([a |-> Str("lan"), b |-> Str("lan")])>>)
    /\ env_result = "False"

\* the available map without the keys that the required map does not have
OnKeysOf(t, h) ==
    Map([k \in DOMAIN h.m \cap DOMAIN t.m |-> h.m[k]])

\* C12: a required map is contained in an available map exactly when each
\* of its keys is a key of the available map and the value under it is
\* contained in the available value under it; the keys that only the
\* available map has do not change the result.
C12_MapContainment ==
    (env_pc = "done" /\ env_test.t = "map" /\ env_helper.t = "map")
        => /\ env_result = "True"
                <=> \A k \in DOMAIN env_test.m :
                        /\ k \in DOMAIN env_helper.m
                        /\ contained(env_test.m[k], env_helper.m[k]) = "True"
           /\ env_result = contained(env_test, OnKeysOf(env_test, env_helper))

C12_Witness ==
    /\ env_pc = "done"
    /\ env_test = Map([a |-> Map([a |-> Null])])
    /\ env_helper = Map([a |-> Map([a |-> Str("lan"), b |-> Str("lan")])])
    /\ env_result = "True"

\* C13: contained changes neither argument: whatever the call returns
\* or raises, the required tree and the caller's available tree with all
\* its nested sequences are afterwards what they were before, and only the
\* working copy has lost the entries that were consumed.
C13_ArgumentsUnchanged ==
    [][EnvCheck => /\ env_test' = env_test
                   /\ env_helper' = env_helper
                   /\ \A j \in 1..Len(env_work') :
                         \E i \in 1..Len(env_helper.e) :
                             env_work'[j] = env_helper.e[i]]_vars

C13_Witness ==
    /\ env_pc = "done"
    /\ env_test = List(<<Map([a |-> Str("lan")])>>)
    /\ env_helper = List(<<Map([a |-> Null]), Map([a |-> Str("lan")])>>)
    /\ env_work = <<Map([a |-> Null])>>
    /\ env_result = "True"

\* C14 (as claimed): env_check returns true exactly when contained is
\* true, raises BftEnvMismatch whenever contained is false, and the error
\* raised carries the required tree and the available tree.
C14_MismatchCarriesTrees ==
    env_pc = "done"
        => /\ env_outcome = Ret(PyTrue) <=> env_result = "True"
           /\ env_result = "False"
                => /\ env_outcome.kind = "raise"
                   /\ env_outcome.type = "BftEnvMismatch"
                   /\ \E i \in 1..Len(env_outcome.args) :
                         env_outcome.args[i] = env_test
                   /\ \E i \in 1..Len(env_outcome.args) :
                         env_outcome.args[i] = env_helper

\* C14 (amended): env_check returns true exactly when contained is true
\* and raises BftEnvMismatch whenever contained is false; the error is
\* raised without arguments, and the required tree and the available tree
\* are written to the error log before it is raised.
C14_MismatchLogsTrees ==
    env_pc = "done"
        => /\ env_outcome = Ret(PyTrue) <=> env_result = "True"
           /\ env_result = "False"
                => /\ env_outcome = Err("BftEnvMismatch", <<>>)
                   /\ \E i \in 1..Len(env_log) : env_log[i] = env_test
                   /\ \E i \in 1..Len(env_log) : env_log[i] = env_helper

C14_Witness ==
    /\ env_pc = "done"
    /\ env_test = Map([a |-> Str("lan")])
    /\ env_helper = Map([b |-> Str("lan")])
    /\ env_result = "False"
    /\ env_outcome.kind = "raise"
    /\ Len(env_log) = 6

(***************************************************************************)
(* Properties of EnvHelper                                                 *)
(***************************************************************************)
\* the constructor has been called on a document and nothing since
Constructed ==
    /\ h_pc \in {"built", "failed"}
    /\ h_call = Call("EnvHelper", <<>>)
    /\ h_env # Null

VersionError ==
    Err("AssertionError", <<Text("Unknown environment version!")>>)

\* C15 (as claimed): construction from a document fails with the version
\* error whenever the document has no version field or a version outside
\* the whitelist, and then no helper holds the document; it succeeds for
\* every document whose version is in the whitelist.
C15_VersionErrorWhenMissingOrUnknown ==
    Constructed
        => IF "version" \in DOMAIN h_env.m /\ VersionKnown(h_env.m.version)
           THEN /\ h_outcome = Ret(Null)
                /\ helper.made
                /\ helper.env = h_env
           ELSE /\ h_outcome = VersionError
                /\ helper = NoHelper

\* C15 (amended): construction from a document whose version is outside
\* the whitelist fails with the assertion error "Unknown environment
\* version!", construction from a document without a version field fails
\* with a KeyError, and in both cases no helper holds the document; it
\* succeeds for every document whose version is in the whitelist.
C15_KeyErrorWhenMissing ==
    Constructed
        => IF "version" \notin DOMAIN h_env.m
           THEN /\ h_outcome = Propagated("KeyError")
                /\ helper = NoHelper
           ELSE IF ~VersionKnown(h_env.m.version)
           THEN /\ h_outcome = VersionError
                /\ helper = NoHelper
           ELSE /\ h_outcome = Ret(Null)
                /\ helper.made
                /\ helper.env = h_env

C15_Witness ==
    /\ h_pc = "failed"
    /\ h_env = Map([environment_def |-> Map(EmptyMap)])
    /\ h_outcome = Propagated("KeyError")
    /\ helper = NoHelper

\* the path that an accessor reads
FixedPath(name) ==
    CASE name = "get_image" -> SoftwarePath \o <<"image_uri">>
      [] name = "get_upgrade_image" -> SoftwarePath \o <<"upgrade_images">>
      [] name = "get_downgrade_image" -> SoftwarePath \o <<"downgrade_images">>
      [] name = "get_software" -> SoftwarePath
      [] name = "get_dependent_software" ->
             SoftwarePath \o <<"dependent_software">>
      [] name = "get_flash_strategy" -> SoftwarePath \o <<"flash_strategy">>

ImageAccessors == {"get_image", "get_upgrade_image", "get_downgrade_image"}
SoftwareAccessors ==
    {"get_software", "get_dependent_software", "get_flash_strategy"}

\* the last call is one of the six accessors on a helper built from a document
AccessorCalled ==
    /\ h_pc = "built"
    /\ h_env # Null
    /\ h_call.name \in ImageAccessors \cup SoftwareAccessors

\* a key of the path is missing, or the image list at its end is empty
PathAbsent(name, env) ==
    \/ IsPyErr(Lookup(env, FixedPath(name)))
    \/ /\ name \in {"get_upgrade_image", "get_downgrade_image"}
       /\ Lookup(env, FixedPath(name)) = List(<<>>)

\* C16 (as claimed): each of the six accessors fails with BftEnvExcKeyError,
\* with no other error and with no default value, whenever the path it
\* reads is absent: a missing board or software section and an empty
\* upgrade or downgrade image list included.
C16_AbsentPathRaisesKeyError ==
    (AccessorCalled /\ PathAbsent(h_call.name, h_env))
        => h_outcome = Err("BftEnvExcKeyError", <<>>)

\* C16 (amended): get_image, get_upgrade_image and get_downgrade_image
\* fail with BftEnvExcKeyError when a key of their path is missing, and the
\* latter two fail with IndexError when the image list is empty;
\* get_software, get_dependent_software and get_flash_strategy fail with
\* KeyError when environment_def or board is missing and return an empty
\* map when only the software section, or the key they read in it, is
\* missing.
C16_AbsentPathOutcomes ==
    (AccessorCalled /\ PathAbsent(h_call.name, h_env))
        => IF h_call.name \in ImageAccessors
           THEN IF IsPyErr(Lookup(h_env, FixedPath(h_call.name)))
                THEN h_outcome = Err("BftEnvExcKeyError", <<>>)
                ELSE h_outcome = Propagated("IndexError")
           ELSE IF IsPyErr(Lookup(h_env, BoardPath))
                THEN h_outcome = Propagated("KeyError")
                ELSE h_outcome = Ret(Map(EmptyMap))

C16_Witness ==
    /\ h_pc = "built"
    /\ h_call = Call("get_upgrade_image", <<>>)
    /\ Lookup(h_env, SoftwarePath \o <<"upgrade_images">>) = List(<<>>)
    /\ h_outcome = Propagated("IndexError")

(***************************************************************************)
(* Properties of env_devices                                               *)
(***************************************************************************)
\* the maps of a document: the document, the maps below its maps and, with
\* lists, the maps below its sequences too
RECURSIVE MapsBelow(_, _)
MapsBelow(x, lists) ==
    IF x.t = "map"
    THEN {x} \cup UNION {MapsBelow(x.m[k], lists) : k \in DOMAIN x.m}
    ELSE IF x.t = "list" /\ lists
    THEN UNION {MapsBelow(x.e[i], lists) : i \in 1..Len(x.e)}
    ELSE {}

\* the pairs <<key, value>> that sit in some map of the document
Entries(doc, lists) ==
    UNION {{<<k, m.m[k]>> : k \in DOMAIN m.m} : m \in MapsBelow(doc, lists)}

\* a map with a device_type key, or a list of such maps
Qualifies(v, emptyToo) ==
    \/ v.t = "map" /\ "device_type" \in DOMAIN v.m
    \/ /\ v.t = "list"
       /\ emptyToo \/ Len(v.e) > 0
       /\ \A i \in 1..Len(v.e) :
              v.e[i].t = "map" /\ "device_type" \in DOMAIN v.e[i].m

\* what the result holds for a qualifying value
AsList(v) == IF v.t = "map" THEN List(<<v>>) ELSE v

\* C17 (as claimed): the result has an entry for every map that carries
\* device_type and every list of maps that all carry it, at any depth and
\* below sequences too, under the key it sits at; it has no entry for
\* anything else, none for an empty list in particular; and no qualifying
\* map or list is missing from it.
C17_EveryDeviceAtAnyDepth ==
    dev_pc = "done"
        => /\ DOMAIN dev_result =
                 {e[1] : e \in {x \in Entries(env_json, TRUE) :
                                    Qualifies(x[2], FALSE)}}
           /\ \A e \in Entries(env_json, TRUE) :
                  Qualifies(e[2], FALSE) => dev_result[e[1]] = AsList(e[2])

\* C17 (amended): the result has an entry for exactly the keys under which
\* a map that carries device_type, or a list (an empty one too) whose
\* entries are all such maps, sits in the document or in a map reached
\* from it through maps alone; what is below a sequence is not looked at.
\* The entry of a key is one of the qualifying values found under it, a
\* map as a list of one; values that share a key replace one another.
C17_DevicesReachedThroughMaps ==
    dev_pc = "done"
        => /\ DOMAIN dev_result =
                 {e[1] : e \in {x \in Entries(env_json, FALSE) :
                                    Qualifies(x[2], TRUE)}}
           /\ \A k \in DOMAIN dev_result :
                  \E e \in Entries(env_json, FALSE) :
                      /\ e[1] = k
                      /\ Qualifies(e[2], TRUE)
                      /\ dev_result[k] = AsList(e[2])

C17_Witness ==
    /\ dev_pc = "done"
    /\ env_json = Map([lan |-> List(<<>>),
                       wan |-> Map([lan |-> Lan,
                                    wan |-> List(<<Map([lan |-> Lan])>>)])])
    /\ dev_result = [lan |-> List(<<Lan>>)]

(***************************************************************************)
(* Properties of probe_devices                                             *)
(***************************************************************************)
\* T is in the list that the registry holds for S
ListedUnder(T, S) ==
    \E i \in 1..Len(device_mappings) :
        /\ device_mappings[i].module = S
        /\ \E j \in 1..Len(device_mappings[i].devs) :
               device_mappings[i].devs[j] = T

\* S binds some name to T
VisibleIn(T, S) ==
    \E j \in 1..Len(Namespace(S)) : Namespace(S)[j].thing = T

\* the places of the registry that hold T
Listings(T) ==
    {p \in UNION {{<<i, j>> : j \in 1..Len(device_mappings[i].devs)} :
                      i \in 1..Len(device_mappings)} :
        device_mappings[p[1]].devs[p[2]] = T}

\* a source other than the declaring one shows T
ReExported(T) == \E S \in Modules : S # ModuleOf(T) /\ VisibleIn(T, S)

\* C18 (as claimed): after a scan a type is listed under a scanned source
\* exactly when the source shows it, it has a model attribute and the
\* source is the one that declares it; so a descriptor that other sources
\* import is in the registry at most once, under its declaring source.
C18_ListedOnceUnderDeclaringSource ==
    n_probes > 0
        => /\ \A S \in Range(all_mods) : \A T \in Things :
                  IsClass(T) =>
                      (ListedUnder(T, S)
                          <=> /\ VisibleIn(T, S)
                              /\ HasModel(T)
                              /\ ModuleOf(T) = S)
           /\ \A T \in Things :
                  (IsClass(T) /\ HasModel(T) /\ ReExported(T))
                      => /\ Cardinality(Listings(T)) <= 1
                         /\ \A S \in Modules :
                                ListedUnder(T, S) => S = ModuleOf(T)

\* the registry is the one that the last scan makes when it runs alone:
\* one entry for each source of the last walk, in the order of the walk,
\* holding what the scan of that source records, and nothing else; so a
\* scan of the sources that the scan before it visited makes an equal
\* registry
OnlyLastScan ==
    /\ Len(device_mappings) = Len(all_mods)
    /\ \A i \in 1..Len(all_mods) :
           device_mappings[i] =
               [module |-> all_mods[i],
                devs |-> Scan(Namespace(all_mods[i]), all_mods[i])]
    /\ \A S \in Modules :
           S \notin Range(all_mods) => \A T \in Things : ~ListedUnder(T, S)

\* C19 (as claimed): after a scan that follows another the registry is
\* the one that the last scan alone makes from an empty registry, nothing
\* of the earlier scan is left that the last one does not record, and no
\* descriptor is listed twice.
C19_LastScanAlone ==
    n_probes > 0
        => /\ OnlyLastScan
           /\ \A T \in Things : Cardinality(Listings(T)) <= 1

(***************************************************************************)
(* Properties of concurrent calls of contained                             *)
(***************************************************************************)
\* C20: calls of contained that run at the same time on the same two
\* trees, their steps interleaved in any way, each end with the result of
\* the call run alone, and the available tree that they share is at every
\* moment the tree that was passed: no call sees a change of another.
C20_ConcurrentCallsIndependent ==
    threads # <<>>
        => /\ env_helper = conc_helper
           /\ \A th \in Threads :
                  threads[th].pc = "done"
                      => threads[th].result = contained(env_test, conc_helper)

C20_Witness ==
    /\ threads # <<>>
    /\ env_test = List(<<Map([a |-> Str("lan")]), Map([a |-> Null])>>)
    /\ env_helper = List(<<Map([a |-> Str("lan")]), Map([a |-> Null])>>)
    /\ threads[1].pc = "loop"
    /\ threads[1].list = <<Map([a |-> Null])>>
    /\ threads[2].pc = "done"
    /\ threads[2].result = "True"

(***************************************************************************)
(* Further properties of contained                                         *)
(***************************************************************************)
\* C21 (as claimed): contained is a total boolean function: on every pair
\* of trees the call returns true or false and never ends with an error.
C21_TotalBoolean ==
    env_pc = "done" => env_result \in {"True", "False"}

\* the required entries of a list that are no maps are all entries of the
\* available list
ScalarsPresent(t, h) ==
    \A i \in 1..Len(t.e) :
        t.e[i].t # "map" => \E j \in 1..Len(h.e) : PyEq(h.e[j], t.e[i])

\* C25: in the match of a sequence against a sequence, the pass over a
\* required element that is no map ends the call with false at once when
\* the element is not in the available sequence, and else counts it and
\* leaves the working copy as it is, so a scalar required twice is found in
\* an available sequence that holds it once; the call returns true exactly
\* when every required scalar is in the available sequence and the working
\* copy has lost one entry for every required map.
C25_ScalarsCountedNotRemoved ==
    [][\A th \in Threads :
          /\ (Iterate(th) /\ env_test.e[threads[th].i].t # "map")
                => IF \E j \in 1..Len(env_helper.e) :
                          PyEq(env_helper.e[j], env_test.e[threads[th].i])
                   THEN /\ threads'[th].pc = "loop"
                        /\ threads'[th].count = threads[th].count + 1
                        /\ threads'[th].list = threads[th].list
                        /\ threads'[th].i = threads[th].i + 1
                   ELSE /\ threads'[th].pc = "done"
                        /\ threads'[th].result = "False"
          /\ (threads'[th].pc = "done" /\ ReachesListLoop(env_test, env_helper))
                => /\ threads'[th].result = "True"
                       <=> /\ ScalarsPresent(env_test, env_helper)
                           /\ Len(threads'[th].list)
                                  = Len(env_helper.e)
                                        - Cardinality(MapEntries(env_test))
                   /\ (/\ env_test = List(<<Str("lan"), Str("lan")>>)
                       /\ env_helper = List(<<Str("lan")>>))
                         => threads'[th].result = "True"]_vars

C25_Witness ==
    /\ threads # <<>>
    /\ env_test = List(<<Str("lan"), Str("lan")>>)
    /\ env_helper = List(<<Str("lan")>>)
    /\ threads[1].pc = "done"
    /\ threads[1].count = 2
    /\ threads[1].list = <<Str("lan")>>
    /\ threads[1].result = "True"

\* C26: a required sequence against an available value that is no sequence
\* (a map or a scalar) is contained exactly when the available value is
\* equal to one of the required elements: no element is matched as a
\* wildcard or by containment, so a required null element accepts only an
\* available null, and a required map element only the equal map.
C26_AcceptableValues ==
    (env_pc = "done" /\ env_test.t = "list" /\ env_helper.t # "list")
        => /\ env_result = "True"
                 <=> \E i \in 1..Len(env_test.e) :
                         PyEq(env_test.e[i], env_helper)
           /\ env_result \in {"True", "False"}
           /\ (\E i \in 1..Len(env_test.e) : env_test.e[i] = Null)
                 => (env_helper = Null => env_result = "True")
           /\ (\A i \in 1..Len(env_test.e) : env_test.e[i] = Null)
                 => (env_helper # Null => env_result = "False")

C26_Witness ==
    /\ env_pc = "done"
    /\ env_test = List(<<Null, Map([a |-> Str("lan")])>>)
    /\ env_helper = Map([a |-> Str("lan"), b |-> Str("lan")])
    /\ contained(env_test.e[2], env_helper) = "True"
    /\ env_result = "False"

\* both sequences hold maps only and the required one is not empty
ListsOfMaps(t, h) ==
    /\ t.t = "list"
    /\ h.t = "list"
    /\ Len(t.e) > 0
    /\ \A i \in 1..Len(t.e) : t.e[i].t = "map"
    /\ \A j \in 1..Len(h.e) : h.e[j].t = "map"

\* f takes every required map, in order, to the first available entry that
\* satisfies it and that no earlier required map was taken to, and to 0
\* when there is none left
IsFirstFit(f, t, h) ==
    \A i \in 1..Len(t.e) :
        LET taken == {f[k] : k \in 1..(i - 1)}
            fits == {j \in 1..Len(h.e) :
                        j \notin taken /\ ItemsLE(t.e[i], h.e[j])}
        IN IF fits = {} THEN f[i] = 0
           ELSE f[i] \in fits /\ \A j \in fits : f[i] <= j

\* the entries of list at the indices outside s, in order
RECURSIVE Keep(_, _, _)
Keep(list, s, j) ==
    IF j > Len(list) THEN <<>>
    ELSE (IF j \in s THEN <<>> ELSE <<list[j]>>) \o Keep(list, s, j + 1)

\* C27: the match of a sequence of maps against a sequence of maps is
\* first-fit without backtracking: every required map, in order, takes the
\* first remaining available entry that has all its key/value pairs, the
\* entries taken are what the working copy has lost, and the result is true
\* exactly when every required map took one; so the result depends on the
\* order of both sequences, and [{a}, {a, b}] against [{a, b}, {a}] is false
\* although the entries can be paired, while against [{a}, {a, b}] it is
\* true.
C27_FirstFitNoBacktracking ==
    (env_pc = "done" /\ ListsOfMaps(env_test, env_helper))
        => /\ \A f \in [1..Len(env_test.e) -> 0..Len(env_helper.e)] :
                 IsFirstFit(f, env_test, env_helper)
                     => /\ env_result = Bool(\A i \in DOMAIN f : f[i] # 0)
                        /\ env_work = Keep(env_helper.e, Range(f), 1)
           /\ (env_test = List(<<Map([a |-> Str("lan")]),
                                 Map([a |-> Str("lan"), b |-> Str("lan")])>>))
                 => /\ env_helper =
                          List(<<Map([a |-> Str("lan"), b |-> Str("lan")]),
                                 Map([a |-> Str("lan")])>>)
                        => env_result = "False"
                    /\ env_helper = env_test => env_result = "True"

C27_Witness ==
    /\ env_pc = "done"
    /\ env_test = List(<<Map([a |-> Str("lan")]),
                         Map([a |-> Str("lan"), b |-> Str("lan")])>>)
    /\ env_helper = List(<<Map([a |-> Str("lan"), b |-> Str("lan")]),
                           Map([a |-> Str("lan")])>>)
    /\ NoReuseMatching(env_test, env_helper)
    /\ env_work = <<Map([a |-> Str("lan")])>>
    /\ env_result = "False"

\* every key of the required map is a key of the entry with an equal value
FlatEqual(m, e) ==
    \A k \in DOMAIN m.m : k \in DOMAIN e.m /\ PyEq(m.m[k], e.m[k])

\* C28: inside the match of a sequence against a sequence a required map
\* is compared with an available entry by plain equality of its key/value
\* pairs: a required sequence that is contained has, for each of its maps,
\* an available entry with equal values under the map's keys, and a single
\* required map against a single available map is contained exactly when
\* that holds; a null or a nested map or sequence under a key is not
\* matched by containment, so [{a: null}] is not contained in [{a: lan}]
\* although {a: null} is contained in {a: lan}.
C28_FlatEqualityInLists ==
    (env_pc = "done" /\ ReachesListLoop(env_test, env_helper))
        => /\ env_result = "True"
                 => \A i \in MapEntries(env_test) :
                        \E j \in 1..Len(env_helper.e) :
                            /\ env_helper.e[j].t = "map"
                            /\ FlatEqual(env_test.e[i], env_helper.e[j])
           /\ (/\ Len(env_test.e) = 1
               /\ Len(env_helper.e) = 1
               /\ env_test.e[1].t = "map"
               /\ env_helper.e[1].t = "map")
                 => env_result
                        = Bool(FlatEqual(env_test.e[1], env_helper.e[1]))
           /\ (/\ env_test = List(<<Map([a |-> Null])>>)
               /\ env_helper = List(<<Map([a |-> Str("lan")])>>))
                 => /\ env_result = "False"
                    /\ contained(env_test.e[1], env_helper.e[1]) = "True"

C28_Witness ==
    /\ env_pc = "done"
    /\ env_test = List(<<Map([a |-> Map([a |-> Null])])>>)
    /\ env_helper = List(<<Map([a |-> Map([a |-> Str("lan")])])>>)
    /\ contained(env_test.e[1], env_helper.e[1]) = "True"
    /\ env_result = "False"

(***************************************************************************)
(* Further properties of get_device                                        *)
(***************************************************************************)
\* the members the n-th Descriptor of the list shares with those before it
SharedWithEarlier(list, n) ==
    {a \in Members(list[n]) : \E j \in 1..(n - 1) : a \in Members(list[j])}

\* C24: when the composition fails on a member-name overlap, the error the
\* caller of get_device receives names exactly the members that the first
\* offending Descriptor shares with the Descriptors before it in the
\* sequence, and as classes exactly the Descriptors of the sequence up to
\* and including the offender, none of the later ones.
C24_ConflictNamesMembersAndPrefix ==
    (pc = "done" /\ IsConflict(result))
        => \E n \in 1..Len(cls_list) :
              /\ SharedWithEarlier(cls_list, n) # {}
              /\ \A i \in 1..(n - 1) : SharedWithEarlier(cls_list, i) = {}
              /\ result.exc.type = "Exception"
              /\ result.exc.common = SharedWithEarlier(cls_list, n)
              /\ result.exc.classes = [i \in 1..n |-> cls_list[i]]
              /\ \A i \in (n + 1)..Len(cls_list) :
                    cls_list[i] \notin Range(result.exc.classes)

C24_Witness ==
    /\ pc = "done"
    /\ IsConflict(result)
    /\ cls_list = <<"D2", "D4", "D3">>
    /\ result.exc.common = {"configure"}
    /\ result.exc.classes = <<"D2", "D4">>
    /\ inits = <<>>

\* the aliases of a Descriptor that are keys of the profile the caller gave
AliasKeys(d) == Range(ModelAttr(d).names) \cap DOMAIN arg_profile.map

\* the part of the final sequence that follows the primaries
Extensions == SubSeq(cls_list, n_primary + 1, Len(cls_list))

IntersectingNonPrimary(d) ==
    /\ "model" \in ClsDict(d)
    /\ ~HasAlias(d, model)
    /\ AliasKeys(d) # {}

\* C23 (as claimed): the profile extensions of the final sequence are the
\* registered Descriptors whose alias set meets the keys of config.profile
\* and that are no primary candidates; no Descriptor occurs twice and no
\* primary is an extension.
C23_ExtensionIffAliasIntersects ==
    Called
        => /\ Extensions = SelectSeq(Registry, IntersectingNonPrimary)
           /\ \A i, j \in 1..Len(cls_list) : cls_list[i] = cls_list[j] => i = j
           /\ \A i \in 1..Len(Extensions) : ~HasAlias(Extensions[i], model)

SelectedNonPrimary(d) ==
    /\ "model" \in ClsDict(d)
    /\ ~HasAlias(d, model)
    /\ IF ModelAttr(d).type = "str" THEN AliasKeys(d) # {}
       ELSE Cardinality(AliasKeys(d)) = 1

\* C23 (amended): the profile extensions of the final sequence are, in
\* registry order, the registered Descriptors that are no primary
\* candidates and whose single alias is a key of config.profile or, for a
\* tuple of aliases, of whose aliases exactly one is a key of
\* config.profile: a Descriptor with two or more of its aliases among the
\* keys is no extension. A primary candidate whose alias is a profile key
\* is not appended again, so no Descriptor occurs twice in the final
\* sequence and no primary is an extension of itself.
C23_ExtensionIffExactlyOneKey ==
    Called
        => /\ Extensions = SelectSeq(Registry, SelectedNonPrimary)
           /\ \A i, j \in 1..Len(cls_list) : cls_list[i] = cls_list[j] => i = j
           /\ \A i \in 1..Len(Extensions) : ~HasAlias(Extensions[i], model)

C23_Witness ==
    /\ pc = "done"
    /\ model = "modemA"
    /\ Registry = <<"D3", "D1", "D4">>
    /\ DOMAIN arg_profile.map = {"wifi", "modemB"}
    /\ cls_list = <<"D1", "D4">>
    /\ result.kind = "return"

\* the configuration the merge starts from: the pass-through keys of the
\* call and, when given, the profile map under the key profile (the two
\* flags are taken out before)
StartConfig ==
    [k \in DOMAIN arg_kwargs \cup (IF arg_profile.present THEN {"profile"} ELSE {})
        |-> IF k \in DOMAIN arg_kwargs THEN arg_kwargs[k] ELSE "@profile"]

\* the override map the caller gave for a profile extension
OverrideOf(d) == arg_profile.map[CHOOSE k \in AliasKeys(d) : TRUE]

\* C22: the merged configuration keeps every key of the configuration it
\* started from with its value, holds besides exactly the keys of the
\* override maps of the profile extensions, and has under each such key the
\* value of the first extension, in registry order, whose override map has
\* the key: the configuration wins over an override, and an override merged
\* earlier wins over a later one.
C22_ConfigurationWinsThenFirstOverride ==
    Called
        => /\ \A k \in DOMAIN StartConfig :
                 k \in DOMAIN kwargs /\ kwargs[k] = StartConfig[k]
           /\ DOMAIN kwargs =
                 DOMAIN StartConfig
                    \cup UNION {DOMAIN OverrideOf(Extensions[i]) :
                                   i \in 1..Len(Extensions)}
           /\ \A k \in DOMAIN kwargs \ DOMAIN StartConfig :
                 \E i \in 1..Len(Extensions) :
                    /\ k \in DOMAIN OverrideOf(Extensions[i])
                    /\ kwargs[k] = OverrideOf(Extensions[i])[k]
                    /\ \A j \in 1..(i - 1) :
                          k \notin DOMAIN OverrideOf(Extensions[j])
           /\ \A i, j \in 1..Len(Extensions) :
                 i < j => \E a, b \in 1..Len(Registry) :
                             /\ a < b
                             /\ Registry[a] = Extensions[i]
                             /\ Registry[b] = Extensions[j]

C22_Witness ==
    /\ pc = "done"
    /\ result.kind = "return"
    /\ model = "modemB"
    /\ Registry = <<"D4", "D3", "D1">>
    /\ arg_kwargs = EmptyMap
    /\ arg_profile.map = [modemA |-> [mode |-> "ap"],
                          wifi |-> [mode |-> "bridge", speed |-> "fast"]]
    /\ cls_list = <<"D3", "D4", "D1">>
    /\ result.dev.target =
           [profile |-> "@profile", mode |-> "bridge", speed |-> "fast"]

\* the extensions, by position, that were selected by the profile key a
UsersOf(a) == {i \in 1..Len(Extensions) : a \in AliasKeys(Extensions[i])}

\* the keys the configuration holds when the i-th extension is merged
KeysBefore(i) ==
    DOMAIN StartConfig
        \cup UNION {DOMAIN OverrideOf(Extensions[j]) : j \in 1..(i - 1)}

\* the override map under the profile key a as the call leaves it
OverrideAfter(a) ==
    LET O == arg_profile.map[a] IN
    IF UsersOf(a) = {} THEN O
    ELSE IF Cardinality(UsersOf(a)) > 1 THEN EmptyMap
    ELSE LET i == CHOOSE u \in UsersOf(a) : TRUE
         IN [k \in DOMAIN O \ KeysBefore(i) |-> O[k]]

\* C29: the merge edits the caller's profile map in place: when get_device
\* has returned or failed, the override map of every profile extension has
\* lost the keys that were in the configuration when it was merged (the
\* keys of the call and those merged from earlier overrides; for an
\* override map that selects two extensions, all of its keys), every other
\* key and every other override map is as it was, the registry is never
\* changed, and a later call made with the same profile map starts from the
\* reduced map.
C29_ProfileReducedInPlace ==
    [][/\ device_mappings' = device_mappings
       /\ (pc = "idle" /\ pc' # "idle") => arg_profile' = profile_obj
       /\ (pc' # "idle")
             => /\ profile_obj'.present = arg_profile'.present
                /\ DOMAIN profile_obj'.map = DOMAIN arg_profile'.map
                /\ \A a \in DOMAIN arg_profile'.map :
                      profile_obj'.map[a] = OverrideAfter(a)'
       /\ (pc' = "idle") => profile_obj' = profile_obj]_vars

\* a later call: the caller's map [wifi |-> [mode, override]] has lost mode
\* in a call that was given mode itself, and the call made now without mode
\* gets no mode from the profile
C29_Witness ==
    /\ pc = "done"
    /\ result.kind = "return"
    /\ model = "modemA"
    /\ Registry = <<"D1", "D4">>
    /\ arg_kwargs = EmptyMap
    /\ arg_profile.map = [wifi |-> [override |-> "yes"]]
    /\ arg_profile.map \notin ProfileMaps
    /\ profile_obj = arg_profile
    /\ result.dev.target = [profile |-> "@profile", override |-> "yes"]

(***************************************************************************)
(* A helper built without a document                                       *)
(***************************************************************************)
HasAccessors == {"has_image", "has_upgrade_image", "has_downgrade_image"}

\* C30: EnvHelper(None), with or without a mirror, is created without a
\* version check and has neither the attribute env nor the attribute
\* mirror; on it get_image (with or without the mirror prefix),
\* get_upgrade_image and get_downgrade_image raise BftEnvExcKeyError and
\* has_image, has_upgrade_image and has_downgrade_image return False.
C30_HelperWithoutDocument ==
    (h_env = Null /\ h_pc # "new")
        => /\ h_pc = "built"
           /\ helper.made
           /\ ~helper.attrs
           /\ SelfEnv(helper) = PyErr("AttributeError")
           /\ h_call = Call("EnvHelper", <<>>) => h_outcome = Ret(Null)
           /\ h_call.name \in ImageAccessors
                 => h_outcome = Err("BftEnvExcKeyError", <<>>)
           /\ h_call.name \in HasAccessors => h_outcome = Ret(PyFalse)

C30_Witness ==
    /\ h_env = Null
    /\ h_mirror = Str("http://mirror/")
    /\ h_pc = "built"
    /\ h_call = Call("get_image", <<PyFalse>>)
    /\ h_outcome = Err("BftEnvExcKeyError", <<>>)

====
